---------------------------- MODULE Spec2Model ----------------------------
(***************************************************************************)
(* A model of the simulation tick of Neon Breaker (components/GameCanvas   *)
(* .tsx) and of the application state machine that drives it (App).        *)
(*                                                                         *)
(* The game is single threaded: every handler below runs to completion,    *)
(* and React commits the state it set (and runs the effects that depend on *)
(* it) before the next animation frame.  One action is one handler         *)
(* together with that commit.                                              *)
(*                                                                         *)
(* What is abstracted.  The flight of a ball and the fall of a power-up    *)
(* are not integrated: what a ball meets in a tick (nothing, the floor,    *)
(* the paddle, a live brick) and what becomes of a falling power-up        *)
(* (still falling, caught by the paddle, below the field) are inputs of    *)
(* the tick.  Wall-clock comparisons of the lifecycle and paddle slices    *)
(* (an interval elapsed, an effect expired) are inputs as well; the clock  *)
(* slice keeps Date.now() and the end times as the code does.  Every       *)
(* Math.random() is an input.                                              *)
(***************************************************************************)
EXTENDS Integers, Sequences, FiniteSets, TLC

----------------------------------------------------------------------------
(* Program constants (constants.ts)                                         *)
CANVAS_WIDTH == 800
CANVAS_HEIGHT == 600
PADDLE_WIDTH == 100
PADDLE_WIDTH_ENLARGED == 160
PADDLE_HEIGHT == 20
PADDLE_OFFSET_BOTTOM == 40
BALL_RADIUS == 8
BRICK_PADDING == 4
BRICK_OFFSET_TOP == 60
BRICK_OFFSET_LEFT == 35
BRICK_HEIGHT == 25
MAX_BALLS == 81
DASH_DISTANCE == 100
paddleSpeed == 8
maxStep == 60
BARRIER_DURATION == 10000
ENLARGE_DURATION == 10000
STICKY_DURATION == 10000
LASER_DELAY == 2000
LIGHTNING_DURATION == 5000
CLUSTER_DURATION == 5000
PIERCE_THRESHOLD_FACTOR100 == 150   \* PIERCE_THRESHOLD_FACTOR 1.5, in hundredths
PIERCE_DRAG100 == 85                \* PIERCE_DRAG 0.85, in hundredths
PADDLE_SPEEDUP100 == 105            \* the 1.05 of the paddle bounce, in hundredths
MAX_BALL_SPEED == 14                \* the cap of the paddle bounce
INITIAL_LIVES == 2
APP_INITIAL_LIVES == 3

(* Bounds of the model                                                      *)
MaxBricks == 7          \* Healer/Spore stop spawning at this array length
MaxPowerUps == 1        \* random drops stop at this many falling power-ups
TargetSpread == 0       \* the pity target is drawn from 6 .. 6+TargetSpread
MaxShrapnel == 2        \* shrapnel pieces in flight that the model follows
MaxLevel == 1           \* a game that started at level 0 is followed up to this level index
MaxStreak == 12         \* hits in a row the score slice follows
MaxScore == 400         \* the score slice stops scoring above this score
TimeStep == 5000        \* the clock slice lets Date.now() advance in steps of this many ms
MaxNow == 15000         \* and follows it up to this many ms
MaxTimed == 1           \* kinds of timed power-up caught in one run of the clock slice
Milli == 1000           \* the pierce slice keeps velocities in thousandths of a pixel per frame
MaxMultiplier == 11     \* Endless loops are followed up to this difficultyMultiplier (tenths)

----------------------------------------------------------------------------
(* Small helpers                                                            *)
Max(a, b) == IF a >= b THEN a ELSE b
Min(a, b) == IF a <= b THEN a ELSE b
Abs(a) == IF a >= 0 THEN a ELSE -a
Range(s) == {s[i] : i \in DOMAIN s}

\* the elements of s at the indices idx, in that order
AtIdx(s, idx) == [i \in 1..Len(idx) |-> s[idx[i]]]

RECURSIVE SelectIdx(_, _, _)
\* the indices i >= from of s with P(s[i]), ascending
SelectIdx(s, P(_), from) ==
  IF from > Len(s) THEN <<>>
  ELSE IF P(s[from]) THEN <<from>> \o SelectIdx(s, P, from + 1)
       ELSE SelectIdx(s, P, from + 1)

\* Array.prototype.filter
Filter(s, P(_)) == SelectSeq(s, P)

----------------------------------------------------------------------------
(* Level data.  The level tables are external data; the model plays three  *)
(* small levels that hold every brick type but the Mimic.                  *)
ModelLevels ==
  << [rows |-> 1, cols |-> 1, layout |-> <<5>>],
     [rows |-> 2, cols |-> 1, layout |-> <<4, 2>>],
     [rows |-> 2, cols |-> 2, layout |-> <<6, 7, 2, 1>>] >>
NumLevels == Len(ModelLevels)

LevelConfigOf(levelIndex) ==
  IF levelIndex + 1 \in DOMAIN ModelLevels THEN ModelLevels[levelIndex + 1]
  ELSE ModelLevels[1]

BrickWidthOf(cols) ==
  (CANVAS_WIDTH - (BRICK_OFFSET_LEFT * 2) - (BRICK_PADDING * (cols - 1))) \div cols

NewBrick(typeCode, r, c, bw) ==
  LET type == CASE typeCode = 2 -> "DURABLE" [] typeCode = 3 -> "MIMIC"
                [] typeCode = 4 -> "HEALER"  [] typeCode = 5 -> "SPORE"
                [] typeCode = 6 -> "PORTAL"  [] typeCode = 7 -> "TURRET"
                [] OTHER -> "STANDARD"
      health == CASE typeCode = 2 -> 2 [] typeCode = 7 -> 3 [] OTHER -> 1
      value == CASE typeCode = 2 -> 30 [] typeCode = 3 -> 20 [] typeCode = 4 -> 50
                 [] typeCode = 5 -> 20 [] typeCode = 6 -> 40 [] typeCode = 7 -> 100
                 [] OTHER -> 10
  IN [x |-> (c * (bw + BRICK_PADDING)) + BRICK_OFFSET_LEFT,
      y |-> (r * (BRICK_HEIGHT + BRICK_PADDING)) + BRICK_OFFSET_TOP,
      width |-> bw, height |-> BRICK_HEIGHT,
      type |-> type, status |-> health, maxHealth |-> health, value |-> value]

RECURSIVE InitBricksFrom(_, _, _)
InitBricksFrom(config, bw, i) ==
  IF i >= Len(config.layout) THEN <<>>
  ELSE LET typeCode == config.layout[i + 1]
           rest == InitBricksFrom(config, bw, i + 1)
       IN IF typeCode = 0 THEN rest
          ELSE <<NewBrick(typeCode, i \div config.cols, i % config.cols, bw)>> \o rest

InitBricks(levelIndex) ==
  LET config == LevelConfigOf(levelIndex)
  IN InitBricksFrom(config, BrickWidthOf(config.cols), 0)

StandardBrickAt(x, y, width) ==
  [x |-> x, y |-> y, width |-> width, height |-> BRICK_HEIGHT,
   type |-> "STANDARD", status |-> 1, maxHealth |-> 1, value |-> 10]

----------------------------------------------------------------------------
(* State                                                                    *)
VARIABLES
  gameState,                 \* App: useState<GameState>
  lives,                     \* App: useState lives
  levelIndex,                \* App: useState levelIndex
  bricks,                    \* bricksRef (destroyed bricks stay in the array)
  balls,                     \* ballsRef
  powerUps,                  \* powerUpsRef
  shrapnels,                 \* shrapnelsRef: pieces in flight
  fx,                        \* timed effects whose end time lies ahead
  barrierActive,             \* barrierActiveRef
  laserPending,              \* powerUpStateRef.laserFireTime > 0
  hasTriggeredMercyEvent,    \* hasTriggeredMercyEventRef
  isCriticalMode,            \* isCriticalModeRef
  criticalHitCounter,        \* criticalHitCounterRef
  criticalHeartTarget,       \* criticalHeartTargetRef
  isWaitingForFinalHeart,    \* isWaitingForFinalHeartRef
  finalHeartId,              \* finalHeartIdRef (0 is null)
  mercySpawns,               \* history: guaranteed Hearts force-spawned this game
  ev,                        \* history: what the last step did
  difficulty,                \* App: useState difficulty
  difficultyMultiplier,      \* App: useState difficultyMultiplier, in tenths
  paddle,                    \* paddleRef
  powerUpState,              \* powerUpStateRef
  now,                       \* Date.now(), in ms since the page was loaded
  score,                     \* App: useState score
  streak                     \* streakRef

varsLife == <<gameState, lives, levelIndex, bricks, balls, powerUps, shrapnels,
              fx, barrierActive, laserPending, hasTriggeredMercyEvent,
              isCriticalMode, criticalHitCounter, criticalHeartTarget,
              isWaitingForFinalHeart, finalHeartId, mercySpawns, ev>>

varsAux == <<difficulty, difficultyMultiplier, paddle, powerUpState, now, score, streak>>

vars == <<varsLife, varsAux>>

----------------------------------------------------------------------------
(* The paddle and the timed power-ups                                       *)
Difficulties == {"EASY", "MEDIUM", "HARD"}

\* ten times DIFFICULTY_SETTINGS[d].paddleWidthFactor
PaddleWidthFactor10(d) ==
  CASE d = "EASY" -> 12 [] d = "MEDIUM" -> 10 [] OTHER -> 8

\* PADDLE_WIDTH * settings.paddleWidthFactor
BaseWidth(d) == (PADDLE_WIDTH * PaddleWidthFactor10(d)) \div 10

\* the paddle resetPaddle builds, as far as the model reads it
ResetPaddle(d) ==
  [x |-> (CANVAS_WIDTH - BaseWidth(d)) \div 2, width |-> BaseWidth(d),
   isEnlarged |-> FALSE]

\* the powerUpStateRef resetPaddle and resetLevel(false) build
NoPowerUps ==
  [enlargeEndTime |-> 0, barrierEndTime |-> 0, laserFireTime |-> 0,
   stickyEndTime |-> 0, lightningEndTime |-> 0, clusterEndTime |-> 0]

----------------------------------------------------------------------------
(* Entities                                                                 *)
\* spawnBall, as far as the lifecycle reads a ball: `fallen` is y >= CANVAS_HEIGHT + 50
SpawnBall(isActive) == [active |-> isActive, fallen |-> FALSE]

\* history of a step that is not a tick.  levelComplete: onLevelComplete was
\* called; winArmed: the level-complete check found no live brick while
\* lives = 1 and the one-shot had not fired; heartsAtSignal, ballsAtSignal:
\* the Hearts falling and the balls in play when onLevelComplete was called;
\* waitAtStart: the tick began while waiting for the final Heart;
\* ballsAtStart: the length of ballsRef when the tick began
NoEvent(kind) ==
  [kind |-> kind, levelComplete |-> FALSE, winArmed |-> FALSE,
   heartsAtSignal |-> 0, ballsAtSignal |-> 0, waitAtStart |-> FALSE,
   ballsAtStart |-> 0]

\* a falling power-up; the fall itself is an input of the tick, so the place
\* is that of the spawn.  x2, y2 are twice x, y: a brick centre may be a half
NewPowerUp(id, x2, y2, type, color) ==
  [id |-> id, x2 |-> x2, y2 |-> y2, type |-> type, color |-> color]

\* Math.random() as an id: a value no falling power-up and no remembered id holds
FreshId(pus, keep) ==
  CHOOSE n \in 1..(Len(pus) + 2) :
    /\ n # keep
    /\ \A i \in DOMAIN pus : pus[i].id # n
    /\ \A m \in 1..(n - 1) : m = keep \/ \E i \in DOMAIN pus : pus[i].id = m

----------------------------------------------------------------------------
(* Power-up drops                                                           *)
GetAllowedPowerUps(level) ==
  <<"ENLARGE", "STICKY", "HEART">>
    \o (IF level >= 2 THEN <<"LASER", "MULTIBALL", "TURRET">> ELSE <<>>)
    \o (IF level >= 5 THEN <<"CLUSTER", "LIGHTNING", "BARRIER">> ELSE <<>>)

FilterAllowed(types, allowed) ==
  LET In(t) == t \in Range(allowed)
  IN Filter(types, In)

\* the pool the weighted roll picks from; tier 1 is r < 60, 2 is r < 90, 3 the rest
PoolOf(tier, common, uncommon, rare, allowed) ==
  LET pool == CASE tier = 1 -> common [] tier = 2 -> uncommon [] OTHER -> rare
  IN IF Len(pool) # 0 THEN pool
     ELSE IF Len(uncommon) > 0 THEN uncommon
     ELSE IF Len(common) > 0 THEN common
     ELSE IF "HEART" \in Range(allowed) THEN <<"HEART">>
     ELSE <<>>

DropPool(level, bs, tier) ==
  LET isTurretActive == \E i \in DOMAIN bs : bs[i].type = "TURRET" /\ bs[i].status > 0
  IN PoolOf(tier,
            FilterAllowed(<<"LASER", "STICKY", "ENLARGE">>, GetAllowedPowerUps(level)),
            FilterAllowed(<<"MULTIBALL", "BARRIER">>, GetAllowedPowerUps(level))
              \o (IF isTurretActive THEN <<"ARMOR">> ELSE <<>>),
            FilterAllowed(<<"CLUSTER", "LIGHTNING">>, GetAllowedPowerUps(level)),
            GetAllowedPowerUps(level))

\* attemptPowerUpDrop.  w.rolls holds the Math.random() draws of the drop
\* attempts still to come in this tick, one [tier, pick] per attempt that
\* passes the POWERUP_CHANCE test; an attempt that finds none fails the test
PushPowerUp(w, x2, y2, type, color) ==
  [w EXCEPT !.powerUps =
     Append(@, NewPowerUp(FreshId(w.powerUps, w.finalHeartId), x2, y2, type, color))]

\* the weighted roll of an attempt that passed the chance test
RollDrop(w, x2, y2, roll, pool) ==
  IF Len(pool) > 0
  THEN PushPowerUp([w EXCEPT !.rolls = Tail(@)], x2, y2,
                   pool[(roll.pick % Len(pool)) + 1], "default")
  ELSE [w EXCEPT !.rolls = Tail(@)]

\* attemptPowerUpDrop after the counter of critical mode was incremented
\* a drop that makes the weighted roll after the guaranteed Heart as well
DropCountedThenRolled(w, x2, y2) ==
  IF w.isCritical /\ w.counter >= criticalHeartTarget
  THEN IF Len(w.rolls) > 0
       THEN RollDrop([PushPowerUp(w, x2, y2, "HEART", "gold")
                        EXCEPT !.hasTriggered = TRUE, !.isCritical = FALSE,
                               !.mercySpawns = @ + 1],
                     x2, y2, Head(w.rolls),
                     DropPool(levelIndex, w.bricks, Head(w.rolls).tier))
       ELSE [PushPowerUp(w, x2, y2, "HEART", "gold")
               EXCEPT !.hasTriggered = TRUE, !.isCritical = FALSE,
                      !.mercySpawns = @ + 1]
  ELSE IF Len(w.rolls) > 0
       THEN RollDrop(w, x2, y2, Head(w.rolls),
                     DropPool(levelIndex, w.bricks, Head(w.rolls).tier))
       ELSE w

DropCounted(w, x2, y2) ==
  IF w.isCritical /\ w.counter >= criticalHeartTarget
  THEN [PushPowerUp(w, x2, y2, "HEART", "gold")
          EXCEPT !.hasTriggered = TRUE, !.isCritical = FALSE, !.mercySpawns = @ + 1]
  ELSE IF Len(w.rolls) > 0
       THEN RollDrop(w, x2, y2, Head(w.rolls),
                     DropPool(levelIndex, w.bricks, Head(w.rolls).tier))
       ELSE w

AttemptPowerUpDrop(w, x2, y2) ==
  DropCounted([w EXCEPT !.counter = IF w.isCritical THEN @ + 1 ELSE @], x2, y2)

\* twice the centre of a brick (the centre itself may be a half)
Cx2(b) == 2 * b.x + b.width
Cy2(b) == 2 * b.y + b.height


----------------------------------------------------------------------------
(* Living bricks (updateLivingBricks)                                       *)
\* the first brick within 5 px of (x, y), destroyed or not
FindBrickAtAny(bs, x, y) ==
  LET At(i) == Abs(bs[i].x - x) < 5 /\ Abs(bs[i].y - y) < 5
  IN IF \E i \in DOMAIN bs : At(i)
     THEN CHOOSE i \in DOMAIN bs : At(i) /\ \A j \in 1..(i - 1) : ~At(j)
     ELSE 0

\* index of the first live brick within 5 px of (x, y); 0 when there is none
FindBrickAt(bs, x, y) ==
  LET At(i) == bs[i].status > 0 /\ Abs(bs[i].x - x) < 5 /\ Abs(bs[i].y - y) < 5
  IN IF \E i \in DOMAIN bs : At(i)
     THEN CHOOSE i \in DOMAIN bs : At(i) /\ \A j \in 1..(i - 1) : ~At(j)
     ELSE 0

IsWithinBounds(x, y, width, height) ==
  /\ x >= BRICK_OFFSET_LEFT - 5
  /\ x + width <= CANVAS_WIDTH - BRICK_OFFSET_LEFT + 5
  /\ y >= BRICK_OFFSET_TOP - 5
  /\ y + height <= CANVAS_HEIGHT - 200

\* Left, Right, Up, Down
Neighbors(b) ==
  << [x |-> b.x - (b.width + BRICK_PADDING), y |-> b.y],
     [x |-> b.x + (b.width + BRICK_PADDING), y |-> b.y],
     [x |-> b.x, y |-> b.y - (BRICK_HEIGHT + BRICK_PADDING)],
     [x |-> b.x, y |-> b.y + (BRICK_HEIGHT + BRICK_PADDING)] >>

\* neighbour cells in bounds, taken or not
ValidSpotsTaken(bs, b) ==
  LET n == Neighbors(b)
      Ok(pos) == IsWithinBounds(pos.x, pos.y, b.width, BRICK_HEIGHT)
  IN Filter(n, Ok)

\* the neighbour cells a new brick may go to
ValidSpots(bs, b) ==
  LET n == Neighbors(b)
      Ok(pos) == IsWithinBounds(pos.x, pos.y, b.width, BRICK_HEIGHT)
                   /\ FindBrickAt(bs, pos.x, pos.y) = 0
  IN Filter(n, Ok)

\* the spot a random choice among `spots` lands on; 0 <= pick
PickSpot(spots, pick) == spots[(pick % Len(spots)) + 1]

NoHealTarget(bs, b) == 0

\* index of the first neighbour of b that is a damaged live Durable brick, or 0
HealTarget(bs, b) ==
  LET n == Neighbors(b)
      Hurt(k) == LET j == FindBrickAt(bs, n[k].x, n[k].y)
                 IN j # 0 /\ bs[j].type = "DURABLE" /\ bs[j].status < bs[j].maxHealth
  IN IF \E k \in 1..4 : Hurt(k)
     THEN LET k == CHOOSE k \in 1..4 : Hurt(k) /\ \A m \in 1..(k - 1) : ~Hurt(m)
          IN FindBrickAt(bs, n[k].x, n[k].y)
     ELSE 0

\* the Healer branch for brick i whose 5 s interval has elapsed
\* a Standard brick goes to a random one of `spots`, when there is one
SpawnBrick(bs, width, spots, pick) ==
  IF Len(spots) > 0 /\ Len(bs) < MaxBricks
  THEN LET pos == PickSpot(spots, pick)
       IN Append(bs, StandardBrickAt(pos.x, pos.y, width))
  ELSE bs

HealOrSpawn(bs, i, t, pick) ==
  IF t # 0 THEN [bs EXCEPT ![t].status = bs[t].maxHealth]
  ELSE SpawnBrick(bs, bs[i].width, ValidSpots(bs, bs[i]), pick)

HealerAct(bs, i, pick) == HealOrSpawn(bs, i, HealTarget(bs, bs[i]), pick)

\* the Spore branch for brick i whose 4 s interval has elapsed
SporeAct(bs, i, pick) == SpawnBrick(bs, bs[i].width, ValidSpots(bs, bs[i]), pick)

\* updateLivingBricks with `acting` the brick whose interval has elapsed at
\* this tick (0: none).  Turret bricks fire at the paddle, which this slice
\* does not hold.
UpdateLivingBricks(bs, acting, pick) ==
  IF acting \notin DOMAIN bs \/ bs[acting].status <= 0 THEN bs
  ELSE IF bs[acting].type = "HEALER" THEN HealerAct(bs, acting, pick)
  ELSE IF bs[acting].type = "SPORE" THEN SporeAct(bs, acting, pick)
  ELSE bs

----------------------------------------------------------------------------
(* Damage to bricks.  w is the world a tick works on: the refs, the state  *)
(* updates queued for React (livesNext, gsNext) and the history fields.    *)
RECURSIVE BeamFrom(_, _, _)
\* laser beam around paddleCenter over the bricks from index i on
BeamFrom(w, paddleCenter, i) ==
  IF i > Len(w.bricks) THEN w
  ELSE LET b == w.bricks[i]
           beamHalfWidth == 6
           overlap == (paddleCenter + beamHalfWidth >= b.x)
                        /\ (paddleCenter - beamHalfWidth <= b.x + b.width)
       IN IF b.status > 0 /\ overlap
          THEN BeamFrom(AttemptPowerUpDrop([w EXCEPT !.bricks[i].status = 0],
                                          Cx2(b), Cy2(b)),
                       paddleCenter, i + 1)
          ELSE BeamFrom(w, paddleCenter, i + 1)

FireLaser(w, paddleCenter) == BeamFrom(w, paddleCenter, 1)

\* squared distance, in half pixels, from the centre of brick b to (ox2, oy2)/2
Dist2(b, ox2, oy2) == (Cx2(b) - ox2) * (Cx2(b) - ox2) + (Cy2(b) - oy2) * (Cy2(b) - oy2)

RECURSIVE SortByDist(_, _, _, _)
\* the indices in `idx` (a set) ordered by distance, ties in array order
SortByDist(bs, idx, ox2, oy2) ==
  IF idx = {} THEN <<>>
  ELSE LET m == CHOOSE i \in idx :
                  \A j \in idx : \/ Dist2(bs[i], ox2, oy2) < Dist2(bs[j], ox2, oy2)
                                 \/ (Dist2(bs[i], ox2, oy2) = Dist2(bs[j], ox2, oy2) /\ i <= j)
       IN <<m>> \o SortByDist(bs, idx \ {m}, ox2, oy2)

\* sort(...).slice(0, 3)
FirstThree(sorted) == SubSeq(sorted, 1, Min(3, Len(sorted)))

LightningTargetsDeadToo(bs, ox2, oy2) ==
  LET near == {i \in DOMAIN bs : Dist2(bs[i], ox2, oy2) < 4 * 150 * 150}
  IN FirstThree(SortByDist(bs, near, ox2, oy2))

\* a strike that reaches the three closest live bricks, however far
LightningTargetsAnyRange(bs, ox2, oy2) ==
  FirstThree(SortByDist(bs, {i \in DOMAIN bs : bs[i].status > 0}, ox2, oy2))

\* the bricks a lightning strike from (ox2, oy2)/2 reaches: live, nearer than
\* 150 px, the three closest
LightningTargets(bs, ox2, oy2) ==
  LET range == 150
      near == {i \in DOMAIN bs : bs[i].status > 0
                                   /\ Dist2(bs[i], ox2, oy2) < 4 * range * range}
  IN FirstThree(SortByDist(bs, near, ox2, oy2))

RECURSIVE Strike(_, _, _)
Strike(w, targets, k) ==
  IF k > Len(targets) THEN w
  ELSE LET i == targets[k]
           b == w.bricks[i]
           w1 == [w EXCEPT !.bricks[i].status = @ - 1]
       IN Strike(IF w1.bricks[i].status <= 0
                 THEN AttemptPowerUpDrop(w1, Cx2(b), Cy2(b)) ELSE w1,
                 targets, k + 1)

TriggerLightning(w, ox2, oy2) == Strike(w, LightningTargets(w.bricks, ox2, oy2), 1)

\* spawnShrapnel pushes 3 to 5 pieces; `count` of them are followed
SpawnShrapnel(w, count) ==
  [w EXCEPT !.shrapnels = Min(MaxShrapnel, @ + count)]

\* an active ball meets live brick i (update, brick collision)
LightningIf(w, lightningActive, b) ==
  IF lightningActive THEN TriggerLightning(w, Cx2(b), Cy2(b)) ELSE w

ClusterIf(w, clusterActive, pieces) ==
  IF clusterActive THEN SpawnShrapnel(w, pieces) ELSE w

DropIf(w, destroyed, b) ==
  IF destroyed THEN AttemptPowerUpDrop(w, Cx2(b), Cy2(b)) ELSE w

BallHitsBrick(w, i, lightningActive, clusterActive, pieces) ==
  LET b == w.bricks[i]
      isPortal == b.type = "PORTAL"
      status1 == IF isPortal THEN 0 ELSE b.status - 1
      destroyed == isPortal \/ status1 <= 0
  IN DropIf(ClusterIf(LightningIf([w EXCEPT !.bricks[i].status = status1],
                                  lightningActive, b),
                      clusterActive, pieces),
            destroyed, b)

\* one ball of the ball loop; e is what the ball meets in this tick
BallStep(w, k, e, stickyActive, lightningActive, clusterActive) ==
  IF ~w.balls[k].active THEN w
  ELSE IF e.kind = "floor"
       THEN IF w.barrierActive THEN w
            ELSE [w EXCEPT !.balls[k] = [active |-> FALSE, fallen |-> TRUE]]
  ELSE IF e.kind = "paddle"
       THEN IF stickyActive THEN [w EXCEPT !.balls[k].active = FALSE] ELSE w
  ELSE IF e.kind = "hit" /\ e.brick \in DOMAIN w.bricks /\ w.bricks[e.brick].status > 0
       THEN BallHitsBrick(w, e.brick, lightningActive, clusterActive, e.pieces)
  ELSE w

RECURSIVE BallLoop(_, _, _, _, _, _)
BallLoop(w, k, evs, stickyActive, lightningActive, clusterActive) ==
  IF k > Len(w.balls) THEN w
  ELSE BallLoop(BallStep(w, k, evs[k], stickyActive, lightningActive, clusterActive),
                k + 1, evs, stickyActive, lightningActive, clusterActive)

RECURSIVE ShrapnelLoop(_, _, _)
\* the shrapnel loop and its filter; fates[k] is 0 (flies on), -1 (spent or
\* out of the field) or the index of the brick the piece is inside of
ShrapnelLoop(w, fates, k) ==
  IF k > Len(fates) THEN w
  ELSE LET f == fates[k]
           hit == f \in DOMAIN w.bricks /\ w.bricks[f].status > 0
           w1 == IF hit THEN [w EXCEPT !.bricks[f].status = @ - 1,
                                       !.shrapnels = @ - 1]
                 ELSE IF f = -1 THEN [w EXCEPT !.shrapnels = @ - 1]
                 ELSE w
       IN ShrapnelLoop(w1, fates, k + 1)

----------------------------------------------------------------------------
(* Lives, power-ups, level completion                                       *)
\* resetLevel(keepPowerUps), as far as this slice holds the state it resets
ResetLevel(w, keepPowerUps) ==
  LET w1 == [w EXCEPT !.balls = <<SpawnBall(FALSE)>>,
                      !.isWaiting = FALSE,
                      !.finalHeartId = 0]
  IN IF keepPowerUps THEN w1
     ELSE [w1 EXCEPT !.barrierActive = FALSE, !.fx = {}, !.laserPending = FALSE,
                     !.powerUps = <<>>, !.shrapnels = 0,
                     !.hasTriggered = FALSE, !.isCritical = FALSE, !.counter = 0]

\* a loss check that does not look at the wait for the final Heart
LoseLifeWaiting(w) ==
  LET newLives == lives - 1
  IN IF Len(w.balls) = 0
     THEN IF newLives <= 0
          THEN [w EXCEPT !.livesNext = newLives, !.gsNext = "GAME_OVER"]
          ELSE ResetLevel([w EXCEPT !.livesNext = newLives], TRUE)
     ELSE w

\* update, "Check Lives": the filter of the balls and the loss of a life
LoseLife(w) ==
  LET newLives == lives - 1
  IN IF ~w.isWaiting /\ Len(w.balls) = 0
     THEN IF newLives <= 0
          THEN [w EXCEPT !.livesNext = newLives, !.gsNext = "GAME_OVER"]
          ELSE ResetLevel([w EXCEPT !.livesNext = newLives], TRUE)
     ELSE w

CheckLives(w) ==
  LET NotFallen(b) == ~b.fallen
  IN LoseLife([w EXCEPT !.balls = Filter(@, NotFallen)])

RECURSIVE MultiballFrom(_, _, _), MultiballFromNoCap(_, _, _)
\* the balls MULTIBALL adds for currentBalls[k..], spaceLeft slots being free
MultiballFromNoCap(currentBalls, k, spaceLeft) ==
  IF k > Len(currentBalls) \/ spaceLeft <= 0 THEN <<>>
  ELSE LET b == currentBalls[k]
       IN <<SpawnBall(b.active), SpawnBall(b.active)>>
            \o MultiballFromNoCap(currentBalls, k + 1, spaceLeft - 2)

MultiballFrom(currentBalls, k, spaceLeft) ==
  IF k > Len(currentBalls) \/ spaceLeft <= 0 THEN <<>>
  ELSE LET b == currentBalls[k]
           added == IF spaceLeft >= 2 THEN <<SpawnBall(b.active), SpawnBall(b.active)>>
                    ELSE <<SpawnBall(b.active)>>
       IN added \o MultiballFrom(currentBalls, k + 1, spaceLeft - Len(added))

\* activatePowerUp, case MULTIBALL
\* the fallback of MULTIBALL: no ball at all gives one active ball
OneBallAtLeast(all) == IF Len(all) = 0 THEN <<SpawnBall(TRUE)>> ELSE all

Multiball(bs) ==
  LET spaceLeft == MAX_BALLS - Len(bs)
  IN IF spaceLeft <= 0 THEN bs
     ELSE OneBallAtLeast(bs \o MultiballFrom(bs, 1, spaceLeft))

\* activatePowerUp; ENLARGE and ARMOR change the paddle only, TURRET starts
\* the pellets (no drop pool holds TURRET, so it is never collected)
ActivatePowerUp(w, type) ==
  CASE type = "HEART" -> [w EXCEPT !.livesNext = @ + 1]
    [] type = "MULTIBALL" -> [w EXCEPT !.balls = Multiball(@)]
    [] type = "BARRIER" -> [w EXCEPT !.barrierActive = TRUE]
    [] type = "STICKY" -> [w EXCEPT !.fx = @ \cup {"sticky"}]
    [] type = "LASER" -> [w EXCEPT !.laserPending = TRUE]
    [] type = "LIGHTNING" -> [w EXCEPT !.fx = @ \cup {"lightning"}]
    [] type = "CLUSTER" -> [w EXCEPT !.fx = @ \cup {"cluster"}]
    [] OTHER -> w

RECURSIVE CollectFrom(_, _, _)
\* the forEach of the power-up phase; fates[k] is "fall", "collect" (it
\* overlaps the paddle) or "leave" (it is at or below CANVAS_HEIGHT);
\* a power-up past the end of fates was pushed in this tick and falls on
CollectFrom(w, fates, k) ==
  IF k > Len(w.powerUps) \/ k > Len(fates) THEN w
  ELSE CollectFrom(IF fates[k] = "collect"
                   THEN ActivatePowerUp(w, w.powerUps[k].type) ELSE w,
                   fates, k + 1)

\* update, "POWER UPS": the forEach and the filter after it
FilterPowerUps(w, fates) ==
  LET Keep(k) == k > Len(fates) \/ fates[k] = "fall"
  IN [w EXCEPT !.powerUps = AtIdx(@, SelectIdx([k \in DOMAIN w.powerUps |-> k], Keep, 1))]

PowerUpPhase(w, fates) == FilterPowerUps(CollectFrom(w, fates, 1), fates)

\* the Hearts among the falling power-ups
Hearts(pus) == {k \in DOMAIN pus : pus[k].type = "HEART"}

\* onLevelComplete() as seen from the tick: App moves to LEVEL_TRANSITION
SignalLevelComplete(w) ==
  [w EXCEPT !.gsNext = "LEVEL_TRANSITION", !.lc = TRUE,
            !.heartsAtSignal = Cardinality(Hearts(w.powerUps)),
            !.ballsAtSignal = Len(w.balls)]

\* a level-complete check that does not look at the bricks
CheckLevelCompleteBlind(w) ==
  IF w.isWaiting THEN w ELSE SignalLevelComplete(w)

\* update, "CHECK LEVEL COMPLETE"; `lives` is the prop the tick closed over
CheckLevelComplete(w) ==
  LET hasBricks == \E i \in DOMAIN w.bricks : w.bricks[i].status > 0
      heartId == FreshId(w.powerUps, w.finalHeartId)
  IN IF w.isWaiting \/ hasBricks THEN w
     ELSE IF lives = 1 /\ ~w.hasTriggered
          THEN [w EXCEPT !.powerUps =
                           Append(@, NewPowerUp(heartId, 2 * (CANVAS_WIDTH \div 2 - 10),
                                                2 * (CANVAS_HEIGHT \div 2),
                                                "HEART", "default")),
                         !.isWaiting = TRUE,
                         !.finalHeartId = heartId,
                         !.hasTriggered = TRUE,
                         !.mercySpawns = @ + 1,
                         !.winArmed = TRUE]
          ELSE SignalLevelComplete(w)

\* update, "MERCY PRIORITY WAIT": TRUE when the wait is over.  A power-up in
\* the array at the start of a tick is active and above CANVAS_HEIGHT, and a
\* ball in the array is above CANVAS_HEIGHT + 20: the filters of the tick
\* before removed the others
WaitDecidedHeartOnly(w) ==
  \A k \in DOMAIN w.powerUps : w.powerUps[k].id # w.finalHeartId

WaitDecided(w) ==
  LET heartStillActive == \E k \in DOMAIN w.powerUps : w.powerUps[k].id = w.finalHeartId
      ballsActive == Len(w.balls) > 0
  IN ~heartStillActive \/ ~ballsActive

----------------------------------------------------------------------------
(* The tick (update) of the lifecycle slice                                 *)
\* the refs and props the tick starts from
World ==
  [bricks |-> bricks, balls |-> balls, powerUps |-> powerUps,
   shrapnels |-> shrapnels, fx |-> fx, barrierActive |-> barrierActive,
   laserPending |-> laserPending, hasTriggered |-> hasTriggeredMercyEvent,
   isCritical |-> isCriticalMode, counter |-> criticalHitCounter,
   isWaiting |-> isWaitingForFinalHeart, finalHeartId |-> finalHeartId,
   mercySpawns |-> mercySpawns, rolls |-> <<>>,
   livesNext |-> lives, gsNext |-> gameState,
   lc |-> FALSE, winArmed |-> FALSE, heartsAtSignal |-> 0, ballsAtSignal |-> 0]

\* update up to the mercy wait: living bricks, expiry of the timed effects,
\* the laser
LaserPhase(w, in) ==
  IF w.laserPending /\ in.laserFire
  THEN [FireLaser(w, in.paddleCenter) EXCEPT !.laserPending = FALSE]
  ELSE w

TimedPhase(w, in) ==
  LaserPhase([w EXCEPT !.bricks = UpdateLivingBricks(@, in.acting, in.pick),
                       !.rolls = in.rolls,
                       !.fx = @ \ in.expire,
                       !.barrierActive = @ /\ ~in.barrierExpire],
             in)

\* update from the ball loop to the level-complete check
\* the shrapnel loop over the pieces in flight, those of this tick included
ShrapnelPhase(w, shr) ==
  ShrapnelLoop(w, SubSeq(shr, 1, Min(Len(shr), w.shrapnels)), 1)

PlayPhase(w, in) ==
  CheckLevelComplete(
    PowerUpPhase(
      CheckLives(
        ShrapnelPhase(
          BallLoop(w, 1, in.ballEv, "sticky" \in fx \ in.expire,
                   "lightning" \in fx \ in.expire, "cluster" \in fx \ in.expire),
          in.shr)),
      in.fates))

\* update from the mercy wait on
WaitOrPlay(w, in) ==
  IF w.isWaiting /\ WaitDecided(w)
  THEN SignalLevelComplete([w EXCEPT !.isWaiting = FALSE, !.finalHeartId = 0])
  ELSE PlayPhase(w, in)

Update(w, in) == WaitOrPlay(TimedPhase(w, in), in)

\* React commits the tick: the refs are written, lives and gameState take
\* their queued values, then the effects of GameCanvas run.  The effect on
\* [lives] runs when lives changed; the effect on [gameState] drops balls
\* and falling items on LEVEL_TRANSITION
Commit(w, target) ==
  LET livesChanged == w.livesNext # lives
      arm == livesChanged /\ w.livesNext = 1 /\ ~w.hasTriggered /\ ~w.isCritical
      disarm == livesChanged /\ ~(w.livesNext = 1 /\ ~w.hasTriggered)
      cleanup == w.gsNext = "LEVEL_TRANSITION"
  IN /\ gameState' = w.gsNext
     /\ lives' = w.livesNext
     /\ levelIndex' = levelIndex
     /\ bricks' = w.bricks
     /\ balls' = IF cleanup THEN <<>> ELSE w.balls
     /\ powerUps' = IF cleanup THEN <<>> ELSE w.powerUps
     /\ shrapnels' = IF cleanup THEN 0 ELSE w.shrapnels
     /\ fx' = w.fx
     /\ barrierActive' = w.barrierActive
     /\ laserPending' = w.laserPending
     /\ hasTriggeredMercyEvent' = w.hasTriggered
     /\ isCriticalMode' = IF arm THEN TRUE ELSE IF disarm THEN FALSE ELSE w.isCritical
     /\ criticalHitCounter' = IF arm THEN 0 ELSE w.counter
     /\ criticalHeartTarget' = IF arm THEN target ELSE criticalHeartTarget
     /\ isWaitingForFinalHeart' = w.isWaiting
     /\ finalHeartId' = w.finalHeartId
     /\ mercySpawns' = w.mercySpawns
     /\ ev' = [kind |-> "tick", levelComplete |-> w.lc, winArmed |-> w.winArmed,
               heartsAtSignal |-> w.heartsAtSignal, ballsAtSignal |-> w.ballsAtSignal,
               waitAtStart |-> isWaitingForFinalHeart, ballsAtStart |-> Len(balls)]

----------------------------------------------------------------------------
(* Inputs of a tick                                                         *)
LiveBricks == {i \in DOMAIN bricks : bricks[i].status > 0}

\* what one ball can meet in a tick
BallEvents ==
  {[kind |-> k, brick |-> 0, pieces |-> 0] : k \in {"none", "floor", "paddle"}}
    \cup {[kind |-> "hit", brick |-> i, pieces |-> 3] : i \in LiveBricks}

\* the draws of the drop attempts of a tick: none passes the chance test, or
\* the first one does and picks the first type of the common tier
RollInputs ==
  IF Len(powerUps) >= MaxPowerUps THEN {<<>>}
  ELSE {<<>>, <<[tier |-> 1, pick |-> 0]>>}

\* the bricks whose interval may have elapsed: no brick, or one live Healer
\* or Spore
ActingInputs ==
  {0} \cup {i \in LiveBricks : bricks[i].type \in {"HEALER", "SPORE"}}

AllTickInputs ==
  [acting : ActingInputs,
   pick : {0},
   expire : SUBSET fx,
   barrierExpire : IF barrierActive THEN BOOLEAN ELSE {FALSE},
   laserFire : IF laserPending THEN BOOLEAN ELSE {FALSE},
   paddleCenter : IF laserPending THEN {200, 400} ELSE {400},
   ballEv : [DOMAIN balls -> BallEvents],
   rolls : RollInputs,
   shr : [1..shrapnels -> {0, -1} \cup LiveBricks],
   fates : [DOMAIN powerUps -> {"fall", "collect", "leave"}]]

\* a tick's draws matter when a brick may be destroyed by a ball or the beam
DrawsUsed(in) ==
  \/ in.rolls = <<>>
  \/ in.laserFire
  \/ \E k \in DOMAIN in.ballEv : in.ballEv[k].kind = "hit"

TickInputs ==
  {in \in AllTickInputs : DrawsUsed(in)}

\* Math.floor(Math.random() * 7) + 6, cut off at 6 + TargetSpread
TargetInputs == 6..(6 + TargetSpread)

----------------------------------------------------------------------------
(* Actions                                                                  *)
\* the commit of world w, the pity target drawn when critical mode is armed
CommitTick(w) ==
  \E target \in (IF w.livesNext # lives /\ w.livesNext = 1
                     /\ ~w.hasTriggered /\ ~w.isCritical
                  THEN TargetInputs ELSE {criticalHeartTarget}) :
    Commit(w, target)

Tick ==
  /\ gameState = "PLAYING"
  /\ \E in \in TickInputs : CommitTick(Update(World, in))
  /\ UNCHANGED varsAux

\* the refs after the Level Update Listener ran for level index li
LevelRefs(li) ==
  /\ bricks' = InitBricks(li)
  /\ balls' = <<SpawnBall(FALSE)>>
  /\ powerUps' = <<>>
  /\ shrapnels' = 0
  /\ fx' = {}
  /\ barrierActive' = FALSE
  /\ laserPending' = FALSE
  /\ isWaitingForFinalHeart' = FALSE
  /\ finalHeartId' = 0
  /\ paddle' = ResetPaddle(difficulty)
  /\ powerUpState' = NoPowerUps

\* a fresh GameCanvas (key = gameKey changed): every ref has its initial
\* value and the mount effects ran
Remount(li) ==
  /\ LevelRefs(li)
  /\ hasTriggeredMercyEvent' = FALSE
  /\ isCriticalMode' = FALSE
  /\ criticalHitCounter' = 0
  /\ criticalHeartTarget' = 0
  /\ streak' = 0

InitializeGame(li) ==
  /\ lives' = INITIAL_LIVES
  /\ gameState' = "PLAYING"
  /\ levelIndex' = li
  /\ Remount(li)
  /\ mercySpawns' = 0
  /\ ev' = NoEvent("none")
  /\ score' = 0
  /\ UNCHANGED <<difficulty, now>>

StartArcade ==
  /\ gameState = "MENU"
  /\ difficultyMultiplier' = 10
  /\ InitializeGame(0)

RestartGame ==
  /\ gameState \in {"GAME_OVER", "VICTORY"}
  /\ InitializeGame(levelIndex)
  /\ UNCHANGED difficultyMultiplier

ReturnToMenu ==
  /\ gameState \in {"GAME_OVER", "VICTORY"}
  /\ gameState' = "MENU"
  /\ Remount(levelIndex)
  /\ mercySpawns' = 0
  /\ ev' = NoEvent("none")
  /\ UNCHANGED <<lives, levelIndex, difficulty, difficultyMultiplier, now, score>>

\* every variable of the slice but gameState and the history of the step
refsLife == <<lives, levelIndex, bricks, balls, powerUps, shrapnels, fx,
              barrierActive, laserPending, hasTriggeredMercyEvent,
              isCriticalMode, criticalHitCounter, criticalHeartTarget,
              isWaitingForFinalHeart, finalHeartId, mercySpawns>>

TogglePause ==
  /\ gameState \in {"PLAYING", "RESUMING", "PAUSED", "MENU", "SETTINGS"}
  /\ gameState' = CASE gameState \in {"PLAYING", "RESUMING"} -> "PAUSED"
                    [] gameState = "PAUSED" -> "RESUMING"
                    [] gameState = "MENU" -> "SETTINGS"
                    [] OTHER -> "MENU"
  /\ ev' = NoEvent("none")
  /\ UNCHANGED <<refsLife, varsAux>>

HandleBlur ==
  /\ gameState \in {"PLAYING", "RESUMING"}
  /\ gameState' = "PAUSED"
  /\ ev' = NoEvent("none")
  /\ UNCHANGED <<refsLife, varsAux>>

\* the resume countdown ran out
ResumeCountdown ==
  /\ gameState = "RESUMING"
  /\ gameState' = "PLAYING"
  /\ ev' = NoEvent("none")
  /\ UNCHANGED <<refsLife, varsAux>>

\* the timer handleLevelComplete set, Arcade campaign
LevelTransitionTimeout ==
  /\ gameState = "LEVEL_TRANSITION"
  /\ LET nextIndex == levelIndex + 1
     IN IF nextIndex < NumLevels
        THEN /\ nextIndex <= MaxLevel
             /\ levelIndex' = nextIndex
             /\ gameState' = "PLAYING"
             /\ LevelRefs(nextIndex)
        ELSE /\ gameState' = "VICTORY"
             /\ UNCHANGED <<levelIndex, bricks, fx, barrierActive, laserPending,
                            isWaitingForFinalHeart, finalHeartId>>
             /\ balls' = <<>>
             /\ powerUps' = <<>>
             /\ shrapnels' = 0
             /\ UNCHANGED <<paddle, powerUpState>>
  /\ ev' = NoEvent("none")
  /\ UNCHANGED <<lives, hasTriggeredMercyEvent, isCriticalMode, criticalHitCounter,
                 criticalHeartTarget, mercySpawns>>
  /\ UNCHANGED <<difficulty, difficultyMultiplier, now, score, streak>>

\* a launch that leaves the streak as it is
LaunchBallsKeepStreak ==
  /\ gameState = "PLAYING"
  /\ balls' = [k \in DOMAIN balls |-> [balls[k] EXCEPT !.active = TRUE]]
  /\ ev' = NoEvent("none")
  /\ UNCHANGED <<gameState, lives, levelIndex, bricks, powerUps, shrapnels, fx,
                 barrierActive, laserPending, hasTriggeredMercyEvent, isCriticalMode,
                 criticalHitCounter, criticalHeartTarget, isWaitingForFinalHeart,
                 finalHeartId, mercySpawns>>
  /\ UNCHANGED varsAux

LaunchBalls ==
  /\ gameState = "PLAYING"
  /\ balls' = [k \in DOMAIN balls |-> [balls[k] EXCEPT !.active = TRUE]]
  /\ ev' = NoEvent("none")
  /\ UNCHANGED <<gameState, lives, levelIndex, bricks, powerUps, shrapnels, fx,
                 barrierActive, laserPending, hasTriggeredMercyEvent, isCriticalMode,
                 criticalHitCounter, criticalHeartTarget, isWaitingForFinalHeart,
                 finalHeartId, mercySpawns>>
  /\ streak' = 0
  /\ UNCHANGED <<difficulty, difficultyMultiplier, paddle, powerUpState, now, score>>

\* App and a fresh GameCanvas at difficulty d, as far as the paddle, the
\* clock and the score go
InitAux(d) ==
  /\ difficulty = d
  /\ difficultyMultiplier = 10
  /\ paddle = ResetPaddle(d)
  /\ powerUpState = NoPowerUps
  /\ now = 0
  /\ score = 0
  /\ streak = 0

Init ==
  /\ gameState = "MENU"
  /\ lives = APP_INITIAL_LIVES
  /\ levelIndex = 0
  /\ bricks = InitBricks(0)
  /\ balls = <<SpawnBall(FALSE)>>
  /\ powerUps = <<>>
  /\ shrapnels = 0
  /\ fx = {}
  /\ barrierActive = FALSE
  /\ laserPending = FALSE
  /\ hasTriggeredMercyEvent = FALSE
  /\ isCriticalMode = FALSE
  /\ criticalHitCounter = 0
  /\ criticalHeartTarget = 0
  /\ isWaitingForFinalHeart = FALSE
  /\ finalHeartId = 0
  /\ mercySpawns = 0
  /\ ev = NoEvent("none")
  /\ InitAux("MEDIUM")

Next ==
  \/ Tick
  \/ LaunchBalls
  \/ StartArcade
  \/ RestartGame
  \/ ReturnToMenu
  \/ LevelTransitionTimeout

Spec == Init /\ [][Next]_vars

----------------------------------------------------------------------------
(* The guaranteed Heart                                                     *)

\* C1: within one game the guaranteed Heart is force-spawned at most once,
\* the counter-target path and the level-clear path counted together.
\* mercySpawns counts the forced spawns since the game started.
C1AtMostOnce == mercySpawns <= 1

\* the Heart the level-clear path pushed is falling where it was spawned
FinalHeartAtCentre ==
  \E k \in DOMAIN powerUps :
    /\ powerUps[k].id = finalHeartId
    /\ powerUps[k].type = "HEART"
    /\ powerUps[k].x2 = CANVAS_WIDTH - 20
    /\ powerUps[k].y2 = CANVAS_HEIGHT

FinalHeartGone == \A k \in DOMAIN powerUps : powerUps[k].id # finalHeartId

\* C2: a tick that finds no live brick while lives = 1 and the one-shot has
\* not fired spawns the Heart at the centre of the field, starts the wait and
\* does not signal level-complete; a tick that begins during the wait
\* signals level-complete exactly when the Heart is no longer falling or no
\* ball is left, and in no other case.
C2DeferredWin ==
  [][ (gameState = "PLAYING" /\ ev'.kind = "tick") =>
        /\ ev'.winArmed =>
             /\ ~ev'.levelComplete
             /\ gameState' # "LEVEL_TRANSITION"
             /\ isWaitingForFinalHeart'
             /\ FinalHeartAtCentre'
        /\ isWaitingForFinalHeart =>
             /\ (gameState' = "LEVEL_TRANSITION") <=> (FinalHeartGone \/ Len(balls) = 0)
             /\ ev'.levelComplete <=> (gameState' = "LEVEL_TRANSITION")
    ]_vars

\* C2 witness: the wait ended, and the win was signalled, in a tick that
\* found the final Heart gone while a ball was still in play
C2WaitEnded ==
  /\ ev.kind = "tick" /\ ev.waitAtStart /\ ev.levelComplete
  /\ ev.ballsAtSignal > 0
  /\ gameState = "LEVEL_TRANSITION"

\* C3 as stated: level-complete is never signalled while a guaranteed Heart
\* is falling and a ball is in play.  (No drop pool ever yields a Heart, so
\* every falling Heart is a guaranteed one.)
C3NeverDenied ==
  ~(ev.kind = "tick" /\ ev.levelComplete /\ ev.heartsAtSignal > 0 /\ ev.ballsAtSignal > 0)

\* C14 as stated: the power-ups a tick collects are applied before its loss
\* check, so the loss check counts a Heart caught in the tick and the tick
\* enters Game Over only with no life left
C14CollectedBeforeLossCheck ==
  [][ (gameState = "PLAYING" /\ ev'.kind = "tick" /\ gameState' = "GAME_OVER")
        => lives' <= 0 ]_vars

----------------------------------------------------------------------------
(* The endgame slice: the lifecycle from the last life of a game that has  *)
(* reached the last level of the model, with a ball in play and a Laser     *)
(* caught and charging.  The one-shot of the guaranteed Heart has fired     *)
(* already, or critical mode is armed.                                      *)
LastLevel == NumLevels - 1

InitEndgame ==
  /\ gameState = "PLAYING"
  /\ lives = 1
  /\ levelIndex = LastLevel
  /\ bricks = InitBricks(LastLevel)
  /\ balls = <<SpawnBall(TRUE)>>
  /\ powerUps = <<>>
  /\ shrapnels = 0
  /\ fx = {}
  /\ barrierActive = FALSE
  /\ laserPending = TRUE
  /\ hasTriggeredMercyEvent \in BOOLEAN
  /\ isCriticalMode = ~hasTriggeredMercyEvent
  /\ criticalHitCounter = 0
  /\ criticalHeartTarget \in (IF hasTriggeredMercyEvent THEN {0} ELSE TargetInputs)
  /\ isWaitingForFinalHeart = FALSE
  /\ finalHeartId = 0
  /\ mercySpawns = IF hasTriggeredMercyEvent THEN 1 ELSE 0
  /\ ev = NoEvent("none")
  /\ InitAux("MEDIUM")

NextEndgame ==
  \/ Tick
  \/ LaunchBalls
  \/ LevelTransitionTimeout
  \/ RestartGame

SpecEndgame == InitEndgame /\ [][NextEndgame]_vars

\* C15 as stated: a tick in which lives drops to 0 enters Game Over, and a
\* tick that enters Game Over signals no level-complete and neither spawns
\* the level-clear Heart nor waits for it
C15GameOverTerminal ==
  [][ (gameState = "PLAYING" /\ ev'.kind = "tick") =>
        /\ (lives' < lives /\ lives' <= 0) => gameState' = "GAME_OVER"
        /\ gameState' = "GAME_OVER" =>
             /\ ~ev'.levelComplete
             /\ ~ev'.winArmed
             /\ ~isWaitingForFinalHeart' ]_vars

\* no brick of bs has health left
NoLiveBrick(bs) == \A i \in DOMAIN bs : bs[i].status = 0

\* C16: level-complete is never signalled while a brick has health > 0, and
\* a tick that starts with no pity-wait pending and no pity Heart owed
\* (lives = 1 with the one-shot unfired) and ends with no live brick
\* signals level-complete in that tick
C16WinCheck ==
  [][ (gameState = "PLAYING" /\ ev'.kind = "tick") =>
        /\ ev'.levelComplete => NoLiveBrick(bricks')
        /\ ( /\ NoLiveBrick(bricks')
             /\ ~isWaitingForFinalHeart
             /\ ~(lives = 1 /\ ~hasTriggeredMercyEvent) )
           => ev'.levelComplete ]_vars

\* a tick that began with live bricks and no wait has signalled
\* level-complete
C16ClearedAndSignalled ==
  /\ ev.kind = "tick"
  /\ ev.levelComplete
  /\ ~ev.waitAtStart
  /\ NoLiveBrick(bricks)
  /\ gameState = "LEVEL_TRANSITION"

\* C17 as stated: critical mode is armed only while lives = 1 and the
\* one-shot has not fired, and it is armed by lives dropping to exactly 1,
\* with counter 0 and a target in 6..12
C17ArmedOnlyAtOneLifeUnfired ==
  [][ /\ isCriticalMode' => (lives' = 1 /\ ~hasTriggeredMercyEvent')
      /\ (~isCriticalMode /\ isCriticalMode') =>
           /\ lives > 1 /\ lives' = 1
           /\ criticalHitCounter' = 0
           /\ criticalHeartTarget' \in 6..12 ]_vars

\* the bricks a step destroyed, the power-ups it pushed and the gold Hearts
\* among them
DestroyedNow(before, after) ==
  {i \in DOMAIN before : before[i].status > 0 /\ after[i].status = 0}

PushedNow(before, after) ==
  {k \in DOMAIN after : \A j \in DOMAIN before : before[j].id # after[k].id}

GoldHearts(pus, ks) ==
  {k \in ks : pus[k].type = "HEART" /\ pus[k].color = "gold"}

\* C18: the tick whose destroy event brings the counter of the armed
\* controller to its target pushes exactly one guaranteed Heart, at the
\* centre of a brick destroyed in that tick, pushes no more power-ups than
\* bricks were destroyed, and leaves the controller fulfilled (disarmed,
\* one-shot fired, counter stopped at the target); a fulfilled controller no
\* longer counts
C18TargetSpawnsOneHeart ==
  [][ (gameState = "PLAYING" /\ ev'.kind = "tick") =>
        /\ (isCriticalMode /\ criticalHitCounter' >= criticalHeartTarget) =>
             /\ ~isCriticalMode'
             /\ hasTriggeredMercyEvent'
             /\ criticalHitCounter' = criticalHeartTarget
             /\ mercySpawns' = mercySpawns + 1
             /\ gameState' = "PLAYING" =>
                  /\ Cardinality(GoldHearts(powerUps', PushedNow(powerUps, powerUps'))) = 1
                  /\ \A k \in GoldHearts(powerUps', PushedNow(powerUps, powerUps')) :
                       \E i \in DestroyedNow(bricks, bricks') :
                         /\ powerUps'[k].x2 = Cx2(bricks[i])
                         /\ powerUps'[k].y2 = Cy2(bricks[i])
                  /\ Cardinality(PushedNow(powerUps, powerUps'))
                       <= Cardinality(DestroyedNow(bricks, bricks'))
        /\ (hasTriggeredMercyEvent /\ ~isCriticalMode) =>
             /\ ~isCriticalMode'
             /\ criticalHitCounter' = criticalHitCounter ]_vars

\* the counter reached the target and the guaranteed Heart is falling
C18HeartFromTheCounter ==
  /\ ev.kind = "tick"
  /\ gameState = "PLAYING"
  /\ hasTriggeredMercyEvent
  /\ ~isCriticalMode
  /\ criticalHitCounter = criticalHeartTarget
  /\ criticalHeartTarget >= 6
  /\ GoldHearts(powerUps, DOMAIN powerUps) # {}

----------------------------------------------------------------------------
(* The cluster slice: the lifecycle on the last life, critical mode armed,  *)
(* at the first level index that allows CLUSTER, the Cluster effect         *)
(* running.  A small stage stands for the bricks of that level.             *)
ClusterLevelIndex == 5

ClusterStage == [rows |-> 2, cols |-> 2, layout |-> <<1, 1, 2, 1>>]

InitCluster ==
  /\ gameState = "PLAYING"
  /\ lives = 1
  /\ levelIndex = ClusterLevelIndex
  /\ bricks = InitBricksFrom(ClusterStage, BrickWidthOf(ClusterStage.cols), 0)
  /\ balls = <<SpawnBall(FALSE)>>
  /\ powerUps = <<>>
  /\ shrapnels = 0
  /\ fx = {"cluster"}
  /\ barrierActive = FALSE
  /\ laserPending = FALSE
  /\ hasTriggeredMercyEvent = FALSE
  /\ isCriticalMode = TRUE
  /\ criticalHitCounter = 0
  /\ criticalHeartTarget \in TargetInputs
  /\ isWaitingForFinalHeart = FALSE
  /\ finalHeartId = 0
  /\ mercySpawns = 0
  /\ ev = NoEvent("none")
  /\ InitAux("MEDIUM")

NextCluster ==
  \/ Tick
  \/ LaunchBalls

SpecCluster == InitCluster /\ [][NextCluster]_vars

\* C19 as stated: while critical mode is armed, a tick raises the pity
\* counter by one for every brick it destroyed, whatever destroyed it
C19EveryDestructionCounted ==
  [][ (gameState = "PLAYING" /\ ev'.kind = "tick"
         /\ isCriticalMode /\ isCriticalMode') =>
        criticalHitCounter' - criticalHitCounter
          = Cardinality(DestroyedNow(bricks, bricks')) ]_vars

----------------------------------------------------------------------------
(* The brick slice: what a tick does to bricksRef and shrapnelsRef.  Which  *)
(* timed effects are running, whether the laser fires and what the balls   *)
(* and the shrapnel meet are inputs.                                        *)
RECURSIVE HitLoop(_, _, _, _, _)
\* the brick collisions of the ball loop: hits[k] is the brick ball k meets
HitLoop(w, hits, k, lightningActive, clusterActive) ==
  IF k > Len(hits) THEN w
  ELSE HitLoop(IF hits[k] \in DOMAIN w.bricks /\ w.bricks[hits[k]].status > 0
               THEN BallHitsBrick(w, hits[k], lightningActive, clusterActive, 3)
               ELSE w,
               hits, k + 1, lightningActive, clusterActive)

LaserIf(w, laserFire, paddleCenter) ==
  IF laserFire THEN FireLaser(w, paddleCenter) ELSE w

\* what update does to the bricks and the shrapnel
UpdateBricks(w, in) ==
  ShrapnelLoop(
    HitLoop(
      LaserIf([w EXCEPT !.bricks = UpdateLivingBricks(@, in.acting, in.pick)],
              in.laserFire, in.paddleCenter),
      in.hits, 1, in.lightningActive, in.clusterActive),
    in.shr, 1)

CommitBricks(w) ==
  /\ bricks' = w.bricks
  /\ shrapnels' = w.shrapnels

BrickInputs ==
  {in \in [acting : ActingInputs,
           pick : 0..1,
           laserFire : BOOLEAN,
           paddleCenter : {200, 400},
           hits : {<<>>} \cup {<<i>> : i \in LiveBricks}
                    \cup {<<i, j>> : i \in LiveBricks, j \in LiveBricks},
           lightningActive : BOOLEAN,
           clusterActive : BOOLEAN,
           shr : [1..shrapnels -> {0, -1} \cup LiveBricks]] :
     /\ in.acting = 0 => in.pick = 0
     /\ ~in.laserFire => in.paddleCenter = 400
     /\ Len(in.hits) = 2 => in.hits[1] <= in.hits[2]
     /\ in.hits = <<>> => ~in.lightningActive /\ ~in.clusterActive}

TickBricks ==
  /\ \E i \in DOMAIN bricks : bricks[i].status > 0
  /\ \E in \in BrickInputs : CommitBricks(UpdateBricks(World, in))
  /\ UNCHANGED <<gameState, lives, levelIndex, balls, powerUps, fx, barrierActive,
                 laserPending, hasTriggeredMercyEvent, isCriticalMode,
                 criticalHitCounter, criticalHeartTarget, isWaitingForFinalHeart,
                 finalHeartId, mercySpawns, ev>>
  /\ UNCHANGED varsAux

\* no live brick is left: level-complete, the transition timer and the Level
\* Update Listener bring the bricks of the next level
LevelCleared ==
  /\ \A i \in DOMAIN bricks : bricks[i].status <= 0
  /\ levelIndex + 1 < NumLevels
  /\ levelIndex' = levelIndex + 1
  /\ bricks' = InitBricks(levelIndex + 1)
  /\ shrapnels' = 0
  /\ UNCHANGED <<gameState, lives, balls, powerUps, fx, barrierActive,
                 laserPending, hasTriggeredMercyEvent, isCriticalMode,
                 criticalHitCounter, criticalHeartTarget, isWaitingForFinalHeart,
                 finalHeartId, mercySpawns, ev>>
  /\ UNCHANGED varsAux

InitPlayingWith(d, firstBalls) ==
  /\ gameState = "PLAYING"
  /\ lives = INITIAL_LIVES
  /\ levelIndex = 0
  /\ bricks = InitBricks(0)
  /\ balls = firstBalls
  /\ powerUps = <<>>
  /\ shrapnels = 0
  /\ fx = {}
  /\ barrierActive = FALSE
  /\ laserPending = FALSE
  /\ hasTriggeredMercyEvent = FALSE
  /\ isCriticalMode = FALSE
  /\ criticalHitCounter = 0
  /\ criticalHeartTarget = 0
  /\ isWaitingForFinalHeart = FALSE
  /\ finalHeartId = 0
  /\ mercySpawns = 0
  /\ ev = NoEvent("none")
  /\ InitAux(d)

InitPlayingAt(d) == InitPlayingWith(d, <<SpawnBall(FALSE)>>)

\* a game just started at level 0, at the difficulty App starts with
InitPlaying == InitPlayingAt("MEDIUM")

NextBricks ==
  \/ TickBricks
  \/ LevelCleared

SpecBricks == InitPlaying /\ [][NextBricks]_vars

\* C4: in every reachable state every brick has 0 <= health <= maxHealth
C4HealthInRange ==
  \A i \in DOMAIN bricks : 0 <= bricks[i].status /\ bricks[i].status <= bricks[i].maxHealth

\* C4 witness: in the last level a brick of several health points is damaged
\* but alive next to a destroyed one, and shrapnel is in flight
C4Damaged ==
  /\ levelIndex = NumLevels - 1
  /\ shrapnels > 0
  /\ \E i, j \in DOMAIN bricks :
       /\ bricks[i].status = 0
       /\ 0 < bricks[j].status /\ bricks[j].status < bricks[j].maxHealth

----------------------------------------------------------------------------
(* The ball slice: what a tick does to ballsRef.  What the balls meet and  *)
(* which power-up the paddle catches are inputs; the bricks are left alone. *)
BallEvent(kind) == [kind |-> kind, brick |-> 0, pieces |-> 0]

\* what the balls meet in one tick: nothing, the floor (the first ball or
\* all of them), or the paddle (all of them)
BallPatterns ==
  {[k \in DOMAIN balls |-> BallEvent(kind)] : kind \in {"none", "floor", "paddle"}}
    \cup {[k \in DOMAIN balls |-> BallEvent(IF k = 1 THEN "floor" ELSE "none")]}

BallInputs ==
  [ballEv : BallPatterns,
   expire : SUBSET fx,
   barrierExpire : IF barrierActive THEN BOOLEAN ELSE {FALSE},
   collect : {"none", "MULTIBALL", "STICKY", "BARRIER"}]

CollectIf(w, type) ==
  IF type = "none" THEN w ELSE ActivatePowerUp(w, type)

\* update as far as the balls go: expiry of the timed effects, the ball
\* loop, the lives check, a power-up caught by the paddle
UpdateBalls(w, in) ==
  CollectIf(
    CheckLives(
      BallLoop([w EXCEPT !.fx = @ \ in.expire,
                         !.barrierActive = @ /\ ~in.barrierExpire],
               1, in.ballEv, "sticky" \in fx \ in.expire, FALSE, FALSE)),
    in.collect)

TickBalls ==
  /\ gameState = "PLAYING"
  /\ \E in \in BallInputs : CommitTick(UpdateBalls(World, in))
  /\ UNCHANGED varsAux

NextBalls ==
  \/ TickBalls
  \/ LaunchBalls
  \/ RestartGame

SpecBalls == InitPlaying /\ [][NextBalls]_vars

\* C5: in every reachable state ballsRef holds at most MAX_BALLS balls
C5BallCap == Len(balls) <= MAX_BALLS

\* C5 witness: a tick that began one ball short of the cap ended at the cap:
\* Multiball was caught with room for a single ball
C5CapReached ==
  /\ ev.kind = "tick"
  /\ ev.ballsAtStart = MAX_BALLS - 1
  /\ Len(balls) = MAX_BALLS

----------------------------------------------------------------------------
(* The paddle slice: every handler that moves or resizes the paddle.  The  *)
(* clock tests (Enlarge has expired, the dash cooldown is over) are inputs. *)
Sign(a) == IF a > 0 THEN 1 ELSE IF a < 0 THEN -1 ELSE 0

\* Math.max(0, x) and then Math.min(CANVAS_WIDTH - width, x)
ClampPaddle(pad) ==
  [pad EXCEPT !.x = Min(CANVAS_WIDTH - pad.width, Max(0, @))]

ClampLeft(pad) == IF pad.x < 0 THEN [pad EXCEPT !.x = 0] ELSE pad

ClampRight(pad) ==
  IF pad.x + pad.width > CANVAS_WIDTH
  THEN [pad EXCEPT !.x = CANVAS_WIDTH - pad.width] ELSE pad

ActivateEnlargeNoClamp(pad) ==
  IF ~pad.isEnlarged
  THEN [pad EXCEPT !.x = @ - ((PADDLE_WIDTH_ENLARGED - pad.width) \div 2),
                   !.width = PADDLE_WIDTH_ENLARGED,
                   !.isEnlarged = TRUE]
  ELSE pad

\* activatePowerUp, case ENLARGE, as far as the paddle goes
ActivateEnlarge(pad) ==
  IF ~pad.isEnlarged
  THEN ClampPaddle([pad EXCEPT !.x = @ - ((PADDLE_WIDTH_ENLARGED - pad.width) \div 2),
                               !.width = PADDLE_WIDTH_ENLARGED,
                               !.isEnlarged = TRUE])
  ELSE pad

\* update, "Check Enlarge Expiry"; expired is now > enlargeEndTime
ExpireEnlarge(pad, d, expired) ==
  IF pad.isEnlarged /\ expired
  THEN ClampPaddle([pad EXCEPT !.x = @ - ((BaseWidth(d) - pad.width) \div 2),
                               !.width = BaseWidth(d),
                               !.isEnlarged = FALSE])
  ELSE pad

\* performDash past the cooldown test
PerformDash(pad, direction) ==
  ClampRight(ClampLeft(
    [pad EXCEPT !.x = IF direction = "left" THEN @ - DASH_DISTANCE
                      ELSE @ + DASH_DISTANCE]))

\* update, touch in the lower zone at canvas x = tx
TouchDrag(pad, tx) ==
  LET targetX == tx - (pad.width \div 2)
      dx == targetX - pad.x
  IN ClampRight(ClampLeft(
       [pad EXCEPT !.x = IF Abs(dx) > maxStep THEN @ + Sign(dx) * maxStep
                         ELSE targetX]))

StepRight(pad, held) ==
  IF held THEN ClampRight([pad EXCEPT !.x = @ + paddleSpeed]) ELSE pad

StepLeft(pad, held) ==
  IF held THEN ClampLeft([pad EXCEPT !.x = @ - paddleSpeed]) ELSE pad

\* update, "PADDLE MOVEMENT LOGIC"; kind "none" is a stunned paddle, or
\* keys that aim a resting ball
MovePaddle(pad, mv) ==
  CASE mv.kind = "touch" -> TouchDrag(pad, mv.tx)
    [] mv.kind = "keys" -> StepLeft(StepRight(pad, mv.right), mv.left)
    [] OTHER -> pad

EnlargeIf(pad, caught) == IF caught THEN ActivateEnlarge(pad) ELSE pad

\* the canvas x of a touch: the edges, inside the first half width, the middle
TouchXs == {0, 37, 400, 800}

Moves ==
  {[kind |-> "none", right |-> FALSE, left |-> FALSE, tx |-> 0]}
    \cup {[kind |-> "keys", right |-> r, left |-> l, tx |-> 0] :
            r \in BOOLEAN, l \in BOOLEAN}
    \cup {[kind |-> "touch", right |-> FALSE, left |-> FALSE, tx |-> t] : t \in TouchXs}

\* update as far as the paddle goes: the expiry of Enlarge, the movement,
\* and Enlarge caught in the power-up phase
TickPaddle ==
  /\ gameState = "PLAYING"
  /\ \E expired \in (IF paddle.isEnlarged THEN BOOLEAN ELSE {FALSE}),
        mv \in Moves, caught \in BOOLEAN :
       paddle' = EnlargeIf(MovePaddle(ExpireEnlarge(paddle, difficulty, expired), mv),
                           caught)
  /\ UNCHANGED <<varsLife, difficulty, difficultyMultiplier, powerUpState, now,
                 score, streak>>

\* Shift, or a double tap in the lower zone
Dash ==
  /\ \E direction \in {"left", "right"} : paddle' = PerformDash(paddle, direction)
  /\ UNCHANGED <<varsLife, difficulty, difficultyMultiplier, powerUpState, now,
                 score, streak>>

\* the level is cleared: the timer of handleLevelComplete and the Level
\* Update Listener, which resets the paddle
LevelAdvance ==
  /\ gameState = "PLAYING"
  /\ levelIndex + 1 < NumLevels
  /\ levelIndex' = levelIndex + 1
  /\ LevelRefs(levelIndex + 1)
  /\ ev' = NoEvent("none")
  /\ UNCHANGED <<gameState, lives, hasTriggeredMercyEvent, isCriticalMode,
                 criticalHitCounter, criticalHeartTarget, mercySpawns>>
  /\ UNCHANGED <<difficulty, difficultyMultiplier, now, score, streak>>

\* a game just started at any difficulty
InitAnyDifficulty == \E d \in Difficulties : InitPlayingAt(d)

NextPaddle ==
  \/ TickPaddle
  \/ Dash
  \/ LevelAdvance

SpecPaddle == InitAnyDifficulty /\ [][NextPaddle]_vars

\* C6: in every reachable state the paddle lies within the canvas:
\* 0 <= paddle.x <= CANVAS_WIDTH - paddle.width
C6PaddleInCanvas ==
  0 <= paddle.x /\ paddle.x <= CANVAS_WIDTH - paddle.width

\* C6 witness: the enlarged paddle stands against the right wall
C6EnlargedAtWall ==
  /\ paddle.isEnlarged
  /\ paddle.width = PADDLE_WIDTH_ENLARGED
  /\ paddle.x = CANVAS_WIDTH - PADDLE_WIDTH_ENLARGED

----------------------------------------------------------------------------
(* The score slice: the score and the streak.  Which brick a ball meets is *)
(* an input.                                                                *)
\* the values initBricks gives the brick types
BrickValues == {NewBrick(t, 0, 0, 1).value : t \in 1..7}

\* Math.floor(b.value * (1 + st * 0.1)).  For the values above and
\* st <= 12 the double arithmetic of the code yields this integer
PointsFor(value, st) == (value * (10 + st)) \div 10

\* update, "Scoring & Effects": a ball met a live brick of this value
BallHit ==
  /\ gameState = "PLAYING"
  /\ streak < MaxStreak
  /\ score <= MaxScore
  /\ \E value \in BrickValues :
       /\ streak' = streak + 1
       /\ score' = score + PointsFor(value, streak + 1)
       /\ ev' = [kind |-> "hit", value |-> value]
  /\ UNCHANGED <<gameState, refsLife, difficulty, difficultyMultiplier, paddle,
                 powerUpState, now>>

\* a brick hit by the laser, by lightning or by shrapnel: its plain value
PlainScore ==
  /\ gameState = "PLAYING"
  /\ score <= MaxScore
  /\ \E value \in BrickValues : score' = score + value
  /\ ev' = NoEvent("none")
  /\ UNCHANGED <<gameState, refsLife, difficulty, difficultyMultiplier, paddle,
                 powerUpState, now, streak>>

\* a paddle bounce without Sticky, or the loss of a life: the streak ends
StreakEnds ==
  /\ gameState = "PLAYING"
  /\ streak' = 0
  /\ ev' = NoEvent("none")
  /\ UNCHANGED <<gameState, refsLife, difficulty, difficultyMultiplier, paddle,
                 powerUpState, now, score>>

NextScore ==
  \/ BallHit
  \/ PlainScore
  \/ StreakEnds
  \/ LaunchBalls

SpecScore == InitPlaying /\ [][NextScore]_vars

\* C7 as stated: a ball hit on a brick of value v adds
\* floor(v * (1 + 0.1 * streak)) with the streak as it was before the hit,
\* and then increments the streak; so the first hit of a streak on a
\* value-10 brick adds 10 and the next one adds 11
C7PointsFromStreakBefore ==
  [][ ev'.kind = "hit" =>
        /\ score' = score + PointsFor(ev'.value, streak)
        /\ streak' = streak + 1 ]_vars

\* C23 as stated: the paddle width is the base width times the difficulty
\* factor or the enlarged width times the difficulty factor, never negative
\* and never above the canvas width
C23WidthOneOfTwo ==
  /\ \/ paddle.width = (PADDLE_WIDTH * PaddleWidthFactor10(difficulty)) \div 10
     \/ paddle.width = (PADDLE_WIDTH_ENLARGED * PaddleWidthFactor10(difficulty)) \div 10
  /\ paddle.width >= 0
  /\ paddle.width <= CANVAS_WIDTH

----------------------------------------------------------------------------
(* The streak slice: the score slice with the cause of every change of the  *)
(* streak told apart.  The multiplier shown is 1 + 0.1 * streak: every      *)
(* write of streakRef is followed by the matching setMultiplier.            *)
PlainSources == {"laser", "lightning", "shrapnel", "pellet"}

\* what a hit that is not a ball contact adds to the score: the value of the
\* brick, 10 for a turret pellet
PlainPoints(source, value) == IF source = "pellet" THEN 10 ELSE value

\* a brick damaged by the laser beam, a lightning arc, a shrapnel piece or a
\* turret pellet
PlainHit ==
  /\ gameState = "PLAYING"
  /\ score <= MaxScore
  /\ \E source \in PlainSources, value \in BrickValues :
       /\ score' = score + PlainPoints(source, value)
       /\ ev' = [kind |-> "plain", source |-> source, value |-> value]
  /\ UNCHANGED <<gameState, refsLife, difficulty, difficultyMultiplier, paddle,
                 powerUpState, now, streak>>

\* update, "Paddle Collision": an active ball meets the paddle, Sticky
\* running or not
PaddleContact ==
  /\ gameState = "PLAYING"
  /\ \E k \in DOMAIN balls, stickyActive \in BOOLEAN :
       /\ balls[k].active
       /\ IF stickyActive
          THEN /\ balls' = [balls EXCEPT ![k].active = FALSE]
               /\ streak' = streak
               /\ ev' = [kind |-> "catch"]
          ELSE /\ balls' = balls
               /\ streak' = 0
               /\ ev' = [kind |-> "bounce"]
  /\ UNCHANGED <<gameState, lives, levelIndex, bricks, powerUps, shrapnels, fx,
                 barrierActive, laserPending, hasTriggeredMercyEvent, isCriticalMode,
                 criticalHitCounter, criticalHeartTarget, isWaitingForFinalHeart,
                 finalHeartId, mercySpawns>>
  /\ UNCHANGED <<difficulty, difficultyMultiplier, paddle, powerUpState, now, score>>

\* update, "Check Lives": the last ball left the field
LifeLost ==
  /\ gameState = "PLAYING"
  /\ ~isWaitingForFinalHeart
  /\ \E k \in DOMAIN balls : balls[k].active
  /\ lives' = lives - 1
  /\ streak' = 0
  /\ gameState' = IF lives - 1 <= 0 THEN "GAME_OVER" ELSE gameState
  /\ balls' = IF lives - 1 <= 0 THEN <<>> ELSE <<SpawnBall(FALSE)>>
  /\ ev' = [kind |-> "lifelost"]
  /\ UNCHANGED <<levelIndex, bricks, powerUps, shrapnels, fx,
                 barrierActive, laserPending, hasTriggeredMercyEvent, isCriticalMode,
                 criticalHitCounter, criticalHeartTarget, isWaitingForFinalHeart,
                 finalHeartId, mercySpawns>>
  /\ UNCHANGED <<difficulty, difficultyMultiplier, paddle, powerUpState, now, score>>

NextStreak ==
  \/ BallHit
  \/ PlainHit
  \/ PaddleContact
  \/ LifeLost
  \/ LaunchBalls

SpecStreak == InitPlaying /\ [][NextStreak]_vars

\* C21 as stated: every hit that damages a brick, by a ball or by the
\* laser, lightning, shrapnel or a turret pellet, raises the streak by
\* exactly 1, and nothing else raises it
C21StreakCountsEveryHit ==
  [][ /\ (ev'.kind = "hit" \/ ev'.kind = "plain") => streak' = streak + 1
      /\ streak' > streak => (ev'.kind = "hit" \/ ev'.kind = "plain") ]_vars

\* a resting ball became active
RestingBallLaunched ==
  \E k \in DOMAIN balls : k \in DOMAIN balls' /\ ~balls[k].active /\ balls'[k].active

\* C22: a paddle bounce without Sticky and the loss of a life reset the
\* streak to 0 (the multiplier to 1), a sticky catch leaves the streak as
\* it was, and the launch of a resting ball resets it
C22StreakResets ==
  [][ /\ (ev'.kind = "bounce" \/ ev'.kind = "lifelost") => streak' = 0
      /\ ev'.kind = "catch" => streak' = streak
      /\ RestingBallLaunched => streak' = 0 ]_vars

\* a ball was caught by the sticky paddle while a streak was running
C22CaughtWithStreak ==
  /\ ev.kind = "catch"
  /\ streak > 0
  /\ \E k \in DOMAIN balls : ~balls[k].active

----------------------------------------------------------------------------
(* The clock slice: Date.now(), the end times of the timed power-ups, the   *)
(* pause, and the soft reset.  Here a ball carries its place: x2 is twice   *)
(* its x.  The flight of an active ball is not followed; whether the active *)
(* balls reach the floor in a tick is an input.                             *)
Timed == {"ENLARGE", "BARRIER", "STICKY", "LASER", "LIGHTNING", "CLUSTER"}

\* the field of powerUpStateRef a timed power-up sets
EndField(type) ==
  CASE type = "ENLARGE" -> "enlargeEndTime" [] type = "BARRIER" -> "barrierEndTime"
    [] type = "STICKY" -> "stickyEndTime" [] type = "LASER" -> "laserFireTime"
    [] type = "LIGHTNING" -> "lightningEndTime" [] OTHER -> "clusterEndTime"

DurationOf(type) ==
  CASE type = "ENLARGE" -> ENLARGE_DURATION [] type = "BARRIER" -> BARRIER_DURATION
    [] type = "STICKY" -> STICKY_DURATION [] type = "LASER" -> LASER_DELAY
    [] type = "LIGHTNING" -> LIGHTNING_DURATION [] OTHER -> CLUSTER_DURATION

\* spawnBall(isActive) with no place given: the ball rests on the paddle
SpawnBallAt(isActive, pad) ==
  [active |-> isActive, fallen |-> FALSE, x2 |-> 2 * pad.x + pad.width,
   stuckOffset |-> 0]

\* the refs and props a tick of this slice works on, and its history:
\* laserFired, softReset, and the refs just before and just after the
\* soft reset
ClockWorld ==
  [paddle |-> paddle, powerUpState |-> powerUpState,
   barrierActive |-> barrierActive, balls |-> balls,
   isWaiting |-> isWaitingForFinalHeart, finalHeartId |-> finalHeartId,
   livesNext |-> lives, gsNext |-> gameState,
   laserFired |-> FALSE, softReset |-> FALSE, before |-> <<>>, after |-> <<>>]

\* update, the expiry of Enlarge and of the Barrier and the laser shot, at
\* the clock reading t
ExpireTimed(w, t) ==
  [w EXCEPT !.paddle = ExpireEnlarge(@, difficulty, t > w.powerUpState.enlargeEndTime),
            !.barrierActive = @ /\ ~(t > w.powerUpState.barrierEndTime),
            !.laserFired = w.powerUpState.laserFireTime > 0
                             /\ t > w.powerUpState.laserFireTime,
            !.powerUpState.laserFireTime = IF @ > 0 /\ t > @ THEN 0 ELSE @]

\* update, "Stick to paddle": a resting ball follows the paddle
StickToPaddle(b, pad) ==
  LET x2 == 2 * pad.x + pad.width + 2 * b.stuckOffset
      lo2 == 2 * pad.x + 2 * BALL_RADIUS
      hi2 == 2 * pad.x + 2 * pad.width - 2 * BALL_RADIUS
  IN IF x2 < lo2
     THEN [b EXCEPT !.x2 = lo2, !.stuckOffset = BALL_RADIUS - (pad.width \div 2)]
     ELSE IF x2 > hi2
          THEN [b EXCEPT !.x2 = hi2, !.stuckOffset = (pad.width \div 2) - BALL_RADIUS]
          ELSE [b EXCEPT !.x2 = x2]

\* one ball of the ball loop; fall: the active balls reach the floor
BallStepClock(b, pad, barrier, fall) ==
  IF ~b.active THEN StickToPaddle(b, pad)
  ELSE IF fall /\ ~barrier THEN [b EXCEPT !.active = FALSE, !.fallen = TRUE]
  ELSE b

BallLoopClock(w, fall) ==
  [w EXCEPT !.balls =
     [k \in DOMAIN @ |-> BallStepClock(@[k], w.paddle, w.barrierActive, fall)]]

ResetLevelDropPowerUps(w) ==
  [w EXCEPT !.balls = <<SpawnBallAt(FALSE, w.paddle)>>,
            !.isWaiting = FALSE,
            !.finalHeartId = 0,
            !.barrierActive = FALSE,
            !.paddle.width = BaseWidth(difficulty),
            !.paddle.isEnlarged = FALSE,
            !.powerUpState = NoPowerUps]

\* resetLevel(true)
ResetLevelKeep(w) ==
  [w EXCEPT !.balls = <<SpawnBallAt(FALSE, w.paddle)>>,
            !.isWaiting = FALSE,
            !.finalHeartId = 0]

RefsOf(w) == [paddle |-> w.paddle, powerUpState |-> w.powerUpState, balls |-> w.balls]

\* history: the refs before the soft reset and after it
MarkReset(w, before) ==
  [w EXCEPT !.softReset = TRUE, !.before = before, !.after = RefsOf(w)]

SoftReset(w) == MarkReset(ResetLevelKeep(w), RefsOf(w))

LoseLifeClock(w) ==
  LET newLives == lives - 1
  IN IF ~w.isWaiting /\ Len(w.balls) = 0
     THEN IF newLives <= 0
          THEN [w EXCEPT !.livesNext = newLives, !.gsNext = "GAME_OVER"]
          ELSE SoftReset([w EXCEPT !.livesNext = newLives])
     ELSE w

\* update, "Check Lives"
CheckLivesClock(w) ==
  LET NotFallen(b) == ~b.fallen
  IN LoseLifeClock([w EXCEPT !.balls = Filter(@, NotFallen)])

\* a timed power-up that adds its duration to what is left of the effect
ActivateTimedStacking(w, type, t) ==
  IF type = "none" THEN w
  ELSE [w EXCEPT !.powerUpState[EndField(type)] = Max(@, t) + DurationOf(type),
                 !.paddle = IF type = "ENLARGE" THEN ActivateEnlarge(@) ELSE @,
                 !.barrierActive = IF type = "BARRIER" THEN TRUE ELSE @]

\* activatePowerUp for a timed power-up, at the clock reading t
ActivateTimed(w, type, t) ==
  CASE type = "ENLARGE" ->
         [w EXCEPT !.powerUpState.enlargeEndTime = t + ENLARGE_DURATION,
                   !.paddle = ActivateEnlarge(@)]
    [] type = "BARRIER" ->
         [w EXCEPT !.powerUpState.barrierEndTime = t + BARRIER_DURATION,
                   !.barrierActive = TRUE]
    [] type = "STICKY" -> [w EXCEPT !.powerUpState.stickyEndTime = t + STICKY_DURATION]
    [] type = "LASER" -> [w EXCEPT !.powerUpState.laserFireTime = t + LASER_DELAY]
    [] type = "LIGHTNING" ->
         [w EXCEPT !.powerUpState.lightningEndTime = t + LIGHTNING_DURATION]
    [] type = "CLUSTER" -> [w EXCEPT !.powerUpState.clusterEndTime = t + CLUSTER_DURATION]
    [] OTHER -> w

UpdateClock(w, in) ==
  ActivateTimed(CheckLivesClock(BallLoopClock(ExpireTimed(w, now), in.fall)),
                in.caught, now)

\* React commits the tick of this slice
CommitClock(w) ==
  /\ gameState' = w.gsNext
  /\ lives' = w.livesNext
  /\ paddle' = w.paddle
  /\ powerUpState' = w.powerUpState
  /\ barrierActive' = w.barrierActive
  /\ balls' = w.balls
  /\ isWaitingForFinalHeart' = w.isWaiting
  /\ finalHeartId' = w.finalHeartId
  /\ ev' = [kind |-> "clock", laserFired |-> w.laserFired, softReset |-> w.softReset,
            before |-> w.before, after |-> w.after]

\* the timed power-ups caught so far in this run
Started == {type \in Timed : powerUpState[EndField(type)] > 0}

ClockInputs ==
  [fall : BOOLEAN,
   caught : {"none"} \cup {type \in Timed :
                             type \in Started \/ Cardinality(Started) < MaxTimed}]

TickClock ==
  /\ gameState = "PLAYING"
  /\ \E in \in ClockInputs : CommitClock(UpdateClock(ClockWorld, in))
  /\ UNCHANGED <<levelIndex, bricks, powerUps, shrapnels, fx, laserPending,
                 hasTriggeredMercyEvent, isCriticalMode, criticalHitCounter,
                 criticalHeartTarget, mercySpawns>>
  /\ UNCHANGED <<difficulty, difficultyMultiplier, now, score, streak>>

\* wall-clock time goes by, whatever the state of the game
TimePasses ==
  /\ now + TimeStep <= MaxNow
  /\ now' = now + TimeStep
  /\ UNCHANGED <<varsLife, difficulty, difficultyMultiplier, paddle, powerUpState,
                 score, streak>>

\* a game just started at level 0, at the difficulty App starts with
InitClock ==
  InitPlayingWith("MEDIUM", <<SpawnBallAt(FALSE, ResetPaddle("MEDIUM"))>>)

NextClock ==
  \/ TickClock
  \/ TimePasses
  \/ LaunchBalls
  \/ Dash
  \/ TogglePause
  \/ HandleBlur
  \/ ResumeCountdown

SpecClock == InitClock /\ [][NextClock]_vars

\* what is left of each timed effect: its end time less Date.now(), 0 once over
Remaining ==
  [type \in Timed |-> Max(0, powerUpState[EndField(type)] - now)]

\* C8 as stated: while the game is paused (or counting down to resume) no
\* step changes what is left of a timed effect
C8PauseFreezes ==
  [][ (gameState = "PAUSED" \/ gameState = "RESUMING") => Remaining' = Remaining ]_vars

\* C9: the soft reset leaves the paddle and every end time of
\* powerUpStateRef as they were, and leaves exactly one ball, resting, with
\* stuckOffset 0, at the centre of the paddle
C9SoftResetFrame ==
  (ev.kind = "clock" /\ ev.softReset) =>
    /\ ev.after.paddle = ev.before.paddle
    /\ ev.after.powerUpState = ev.before.powerUpState
    /\ Len(ev.after.balls) = 1
    /\ ~ev.after.balls[1].active
    /\ ev.after.balls[1].stuckOffset = 0
    /\ ev.after.balls[1].x2 = 2 * ev.after.paddle.x + ev.after.paddle.width

\* C9 witness: a soft reset with the paddle enlarged, away from the middle
\* of the canvas, while Enlarge is running
C9ResetWhileEnlarged ==
  /\ ev.kind = "clock" /\ ev.softReset
  /\ ev.before.paddle.isEnlarged
  /\ ev.before.powerUpState.enlargeEndTime > now
  /\ 2 * ev.before.paddle.x + ev.before.paddle.width # CANVAS_WIDTH
  /\ lives = 1

----------------------------------------------------------------------------
(* The pierce slice: the velocity of one ball through launch, wall, paddle  *)
(* and brick, in an Endless game.  Velocities are fixed-point numbers,      *)
(* thousandths of a pixel per frame, products rounded towards zero.  The    *)
(* place of the ball is not followed: what it touches is an input.  The     *)
(* paddle stands still when the ball meets it, so the ball gets no spin.    *)
BallSpeed(d) ==
  CASE d = "EASY" -> 4 [] d = "MEDIUM" -> 6 [] OTHER -> 8

\* the stages of the Endless campaign in the model: one stage, a Durable
\* brick beside a Portal
EndlessStages ==
  << [rows |-> 1, cols |-> 2, layout |-> <<2, 6>>] >>

\* initBricks in the Endless campaign
InitEndlessBricks(li) ==
  InitBricksFrom(EndlessStages[li + 1], BrickWidthOf(EndlessStages[li + 1].cols), 0)

\* a * n / d, rounded towards zero
MulDiv(a, n, d) ==
  IF a < 0 THEN -(((-a) * n) \div d) ELSE (a * n) \div d

RECURSIVE IsqrtIn(_, _, _)
IsqrtIn(v, lo, hi) ==
  IF lo >= hi THEN lo
  ELSE LET mid == (lo + hi + 1) \div 2
       IN IF mid * mid <= v THEN IsqrtIn(v, mid, hi) ELSE IsqrtIn(v, lo, mid - 1)

\* Math.sqrt(dx*dx + dy*dy)
SpeedOf(b) == IsqrtIn(b.dx * b.dx + b.dy * b.dy, 0, 2 * MAX_BALL_SPEED * Milli)

\* spawnBall(false): speed is settings.ballSpeed * difficultyMultiplier
SpawnBallSpeed(d, multiplier) ==
  [active |-> FALSE, dx |-> 0, dy |-> 0,
   speed |-> (BallSpeed(d) * multiplier * Milli) \div 10]

\* the angles off the paddle a launch takes in the slice, as
\* <<n sin, n cos, n>>: the hit points 0.61 and 0.89 of the way to either
\* end of the paddle
Angles == {<<3, 4, 5>>, <<-3, 4, 5>>, <<4, 3, 5>>, <<-4, 3, 5>>}

\* the angles of a paddle bounce: those, straight up (hit point 0), and the
\* 60 degrees of a hit point clamped to -1 or 1
PaddleAngles == Angles \cup {<<0, 1, 1>>, <<866, 500, 1000>>, <<-866, 500, 1000>>}

\* (Math.random() * 0.1) - 0.05, in thousandths
Drifts == {-50, 0, 49}

\* speed * sin(angle), -speed * cos(angle)
LaunchVector(speed, angle) ==
  [dx |-> MulDiv(speed, angle[1], angle[3]), dy |-> -MulDiv(speed, angle[2], angle[3])]

\* "Micro-Drift": a nearly vertical vector is nudged sideways
Drifted(v, drift) ==
  IF Abs(v.dx) < 100 THEN [v EXCEPT !.dx = @ + drift] ELSE v

\* "Normalize": v scaled to the length speed
Normalized(b, v, speed) ==
  [b EXCEPT !.dx = MulDiv(v.dx, speed, SpeedOf(v)),
            !.dy = MulDiv(v.dy, speed, SpeedOf(v))]

\* launchBalls, one ball
Launched(b, angle) ==
  Normalized([b EXCEPT !.active = TRUE], LaunchVector(b.speed, angle), b.speed)

NewSpeedNoCap(speed) == MulDiv(speed, PADDLE_SPEEDUP100, 100)

\* Math.min(speed * 1.05, 14)
NewSpeed(speed) ==
  Min(MulDiv(speed, PADDLE_SPEEDUP100, 100), MAX_BALL_SPEED * Milli)

\* update, "Paddle Collision" without Sticky
PaddleBounced(b, angle, drift) ==
  Normalized(b, Drifted(LaunchVector(NewSpeed(SpeedOf(b)), angle), drift),
             NewSpeed(SpeedOf(b)))

\* currentSpeed > base * PIERCE_THRESHOLD_FACTOR, base in thousandths
\* (base is a whole number of hundredths, so the product is exact)
FasterThan(b, base) ==
  b.dx * b.dx + b.dy * b.dy
    > ((base * PIERCE_THRESHOLD_FACTOR100) \div 100)
        * ((base * PIERCE_THRESHOLD_FACTOR100) \div 100)

\* update, "NORMAL LOGIC": the test of the momentum pierce
IsMomentumPierce(b, d) == FasterThan(b, BallSpeed(d) * Milli)

Dragged(b) ==
  [b EXCEPT !.dx = MulDiv(@, PIERCE_DRAG100, 100), !.dy = MulDiv(@, PIERCE_DRAG100, 100)]

\* update, "Bounce Physics"
Bounced(b, axis) ==
  IF axis = "x" THEN [b EXCEPT !.dx = -@] ELSE [b EXCEPT !.dy = -@]

BallAfterHitAnyBrick(b, brick, axis, d) ==
  IF IsMomentumPierce(b, d) THEN Dragged(b) ELSE Bounced(b, axis)

\* Math.random(), in thousandths
Randoms == {0, 999}

\* update, "PORTAL LOGIC", "Teleport Ball": newX and newY from two random
\* numbers
Teleported(rx, ry) ==
  [x |-> (rx * (CANVAS_WIDTH - BALL_RADIUS * 2)) \div 1000 + BALL_RADIUS,
   y |-> (CANVAS_HEIGHT * 3) \div 10
           + (ry * ((CANVAS_HEIGHT * 6) \div 10 - (CANVAS_HEIGHT * 3) \div 10)) \div 1000]

\* where a brick hit puts the ball: a Portal teleports it, any other brick
\* leaves it where the flight brought it (which the slice does not follow)
PlaceAfterHit(brick, rx, ry) ==
  IF brick.type = "PORTAL" THEN Teleported(rx, ry) ELSE [x |-> -1, y |-> -1]

\* update, "Brick Collision", the ball: a Portal moves it and leaves its
\* velocity alone
BallAfterHit(b, brick, axis, d) ==
  IF brick.type = "PORTAL" THEN b
  ELSE IF IsMomentumPierce(b, d) THEN Dragged(b)
  ELSE Bounced(b, axis)

\* update, "Brick Collision", the brick
BrickAfterHit(brick) ==
  IF brick.type = "PORTAL" THEN [brick EXCEPT !.status = 0]
  ELSE [brick EXCEPT !.status = @ - 1]

UNCHANGEDPierce ==
  UNCHANGED <<gameState, lives, powerUps, shrapnels, fx, barrierActive, laserPending,
              hasTriggeredMercyEvent, isCriticalMode, criticalHitCounter,
              criticalHeartTarget, isWaitingForFinalHeart, finalHeartId, mercySpawns,
              difficulty, paddle, powerUpState, now, score, streak>>

LaunchAimed ==
  /\ gameState = "PLAYING"
  /\ ~balls[1].active
  /\ \E angle \in Angles : balls' = <<Launched(balls[1], angle)>>
  /\ ev' = NoEvent("none")
  /\ UNCHANGED <<levelIndex, bricks, difficultyMultiplier>>
  /\ UNCHANGEDPierce

\* update, "Walls": a side wall or the top
WallBounce ==
  /\ gameState = "PLAYING"
  /\ balls[1].active
  /\ \E axis \in {"x", "y"} :
       /\ axis = "y" => balls[1].dy < 0
       /\ balls' = <<Bounced(balls[1], axis)>>
  /\ ev' = NoEvent("none")
  /\ UNCHANGED <<levelIndex, bricks, difficultyMultiplier>>
  /\ UNCHANGEDPierce

\* the ball comes down on the paddle, which sends it off at one of angles,
\* nudged by one of drifts when that is nearly straight up
PaddleBounceAt(angles, drifts) ==
  /\ gameState = "PLAYING"
  /\ balls[1].active
  /\ balls[1].dy > 0
  /\ \E angle \in angles, drift \in drifts :
       /\ balls' = <<PaddleBounced(balls[1], angle, drift)>>
       /\ ev' = [kind |-> "paddle", speedBefore |-> SpeedOf(balls[1]),
                 after |-> PaddleBounced(balls[1], angle, drift)]
  /\ UNCHANGED <<levelIndex, bricks, difficultyMultiplier>>
  /\ UNCHANGEDPierce

\* (none of Angles is near enough to straight up for the micro-drift)
PaddleBounce == PaddleBounceAt(Angles, {0})

\* the ball meets the live brick i along axis
BrickHit ==
  /\ gameState = "PLAYING"
  /\ balls[1].active
  /\ \E i \in DOMAIN bricks, axis \in {"x", "y"}, rx \in Randoms, ry \in Randoms :
       /\ bricks[i].status > 0
       /\ balls' = <<BallAfterHit(balls[1], bricks[i], axis, difficulty)>>
       /\ bricks' = [bricks EXCEPT ![i] = BrickAfterHit(@)]
       /\ ev' = [kind |-> "brickhit", type |-> bricks[i].type,
                 statusBefore |-> bricks[i].status,
                 statusAfter |-> BrickAfterHit(bricks[i]).status,
                 before |-> balls[1],
                 after |-> BallAfterHit(balls[1], bricks[i], axis, difficulty),
                 place |-> PlaceAfterHit(bricks[i], rx, ry)]
  /\ UNCHANGED <<levelIndex, difficultyMultiplier>>
  /\ UNCHANGEDPierce

\* handleLevelComplete in Endless mode, its timer, and the Level Update
\* Listener: the next stage, or the first one again at a higher
\* difficultyMultiplier
StageCleared ==
  /\ gameState = "PLAYING"
  /\ \A i \in DOMAIN bricks : bricks[i].status <= 0
  /\ IF levelIndex + 1 < Len(EndlessStages)
     THEN /\ levelIndex' = levelIndex + 1
          /\ UNCHANGED difficultyMultiplier
     ELSE /\ difficultyMultiplier < MaxMultiplier
          /\ levelIndex' = 0
          /\ difficultyMultiplier' = difficultyMultiplier + 1
  /\ bricks' = InitEndlessBricks(levelIndex')
  /\ balls' = <<SpawnBallSpeed(difficulty, difficultyMultiplier')>>
  /\ ev' = NoEvent("none")
  /\ UNCHANGEDPierce

\* an Endless game just started, at the difficulty App starts with
InitPierce ==
  /\ gameState = "PLAYING"
  /\ lives = INITIAL_LIVES
  /\ levelIndex = 0
  /\ bricks = InitEndlessBricks(0)
  /\ balls = <<SpawnBallSpeed("MEDIUM", 10)>>
  /\ powerUps = <<>>
  /\ shrapnels = 0
  /\ fx = {}
  /\ barrierActive = FALSE
  /\ laserPending = FALSE
  /\ hasTriggeredMercyEvent = FALSE
  /\ isCriticalMode = FALSE
  /\ criticalHitCounter = 0
  /\ criticalHeartTarget = 0
  /\ isWaitingForFinalHeart = FALSE
  /\ finalHeartId = 0
  /\ mercySpawns = 0
  /\ ev = NoEvent("none")
  /\ InitAux("MEDIUM")

NextPierce ==
  \/ LaunchAimed
  \/ WallBounce
  \/ PaddleBounce
  \/ BrickHit
  \/ StageCleared

SpecPierce == InitPierce /\ [][NextPierce]_vars

SameSign(a, b) == (a > 0 /\ b > 0) \/ (a < 0 /\ b < 0) \/ (a = 0 /\ b = 0)

\* C10 as stated: a ball faster than 1.5 times its own base speed that hits
\* a brick other than a Portal takes 1 health off the brick, keeps the signs
\* of dx and dy and has both multiplied by 0.85 once; a ball that is not
\* faster bounces, exactly one of dx and dy negated, with no drag
C10PierceAboveOwnBase ==
  (ev.kind = "brickhit" /\ ev.type # "PORTAL") =>
    IF FasterThan(ev.before, ev.before.speed)
    THEN /\ ev.statusAfter = ev.statusBefore - 1
         /\ SameSign(ev.after.dx, ev.before.dx)
         /\ SameSign(ev.after.dy, ev.before.dy)
         /\ ev.after.dx = MulDiv(ev.before.dx, PIERCE_DRAG100, 100)
         /\ ev.after.dy = MulDiv(ev.before.dy, PIERCE_DRAG100, 100)
    ELSE \/ ev.after.dx = -ev.before.dx /\ ev.after.dy = ev.before.dy
         \/ ev.after.dx = ev.before.dx /\ ev.after.dy = -ev.before.dy

\* C13: a ball that meets a Portal leaves it with health 0, is put at a y
\* within 0.3 and 0.6 of the canvas height and an x within the canvas, and
\* keeps its dx and dy
C13PortalTeleports ==
  (ev.kind = "brickhit" /\ ev.type = "PORTAL") =>
    /\ ev.statusAfter = 0
    /\ 10 * ev.place.y >= 3 * CANVAS_HEIGHT
    /\ 10 * ev.place.y <= 6 * CANVAS_HEIGHT
    /\ ev.place.x >= 0
    /\ ev.place.x <= CANVAS_WIDTH
    /\ ev.after.dx = ev.before.dx
    /\ ev.after.dy = ev.before.dy

\* C13 witness: a ball fast enough to pierce met the Portal, and the random
\* numbers put it at the far corner of the band
C13FastBallTeleported ==
  /\ ev.kind = "brickhit"
  /\ ev.type = "PORTAL"
  /\ IsMomentumPierce(ev.before, difficulty)
  /\ ev.place = Teleported(999, 999)

----------------------------------------------------------------------------
(* The bounce slice: one ball between the paddle, the walls and the top,    *)
(* with every angle of the paddle bounce and the micro-drift.               *)
PaddleBounceAny == PaddleBounceAt(PaddleAngles, Drifts)

NextBounce ==
  \/ LaunchAimed
  \/ WallBounce
  \/ PaddleBounceAny

SpecBounce == InitPierce /\ [][NextBounce]_vars

----------------------------------------------------------------------------
(* The healer slice: a level with a Healer, a free cell to its right and a  *)
(* Durable brick below it.                                                  *)
HealerLevel == [rows |-> 2, cols |-> 2, layout |-> <<4, 0, 2, 0>>]

\* a game that has reached a level whose bricks are firstBricks
InitPlayingOn(firstBricks) ==
  /\ gameState = "PLAYING"
  /\ lives = INITIAL_LIVES
  /\ levelIndex = 0
  /\ bricks = firstBricks
  /\ balls = <<SpawnBall(FALSE)>>
  /\ powerUps = <<>>
  /\ shrapnels = 0
  /\ fx = {}
  /\ barrierActive = FALSE
  /\ laserPending = FALSE
  /\ hasTriggeredMercyEvent = FALSE
  /\ isCriticalMode = FALSE
  /\ criticalHitCounter = 0
  /\ criticalHeartTarget = 0
  /\ isWaitingForFinalHeart = FALSE
  /\ finalHeartId = 0
  /\ mercySpawns = 0
  /\ ev = NoEvent("none")
  /\ InitAux("MEDIUM")

InitHealer ==
  InitPlayingOn(InitBricksFrom(HealerLevel, BrickWidthOf(HealerLevel.cols), 0))

\* a tick in which nothing hits a brick and the interval of the living brick
\* `acting` has elapsed
TickLiving ==
  /\ \E acting \in LiveBricks, pick \in 0..3 :
       /\ bricks' = UpdateLivingBricks(bricks, acting, pick)
       /\ ev' = [kind |-> "living", acting |-> acting, before |-> bricks,
                 after |-> UpdateLivingBricks(bricks, acting, pick)]
  /\ UNCHANGED <<gameState, lives, levelIndex, balls, powerUps, shrapnels, fx,
                 barrierActive, laserPending, hasTriggeredMercyEvent, isCriticalMode,
                 criticalHitCounter, criticalHeartTarget, isWaitingForFinalHeart,
                 finalHeartId, mercySpawns>>
  /\ UNCHANGED varsAux

\* a tick in which one ball hits the live brick i, with no power-up running
\* and no interval elapsed
TickHit ==
  /\ \E i \in LiveBricks :
       CommitBricks(UpdateBricks(World,
         [acting |-> 0, pick |-> 0, laserFire |-> FALSE, paddleCenter |-> 400,
          hits |-> <<i>>, lightningActive |-> FALSE, clusterActive |-> FALSE,
          shr |-> <<>>]))
  /\ UNCHANGED <<gameState, lives, levelIndex, balls, powerUps, fx, barrierActive,
                 laserPending, hasTriggeredMercyEvent, isCriticalMode,
                 criticalHitCounter, criticalHeartTarget, isWaitingForFinalHeart,
                 finalHeartId, mercySpawns, ev>>
  /\ UNCHANGED varsAux

NextHealer ==
  \/ TickLiving
  \/ TickHit

SpecHealer == InitHealer /\ [][NextHealer]_vars

\* brick b sits in one of the four cells next to brick h
GridAdjacent(h, b) ==
  \E k \in 1..4 : Abs(b.x - Neighbors(h)[k].x) < 5 /\ Abs(b.y - Neighbors(h)[k].y) < 5

\* the live Durable bricks next to h that are below their full health
HurtNextTo(bs, h) ==
  {j \in DOMAIN bs : /\ bs[j].status > 0
                      /\ bs[j].type = "DURABLE"
                      /\ bs[j].status < bs[j].maxHealth
                      /\ GridAdjacent(h, bs[j])}

\* C12: an activation of a Healer with a damaged live Durable brick next to
\* it brings one such brick to its full health, changes no other brick and
\* spawns none; with no such brick it changes no brick and spawns at most
\* one, a Standard brick
C12HealBeforeSpawn ==
  (ev.kind = "living" /\ ev.before[ev.acting].type = "HEALER") =>
    IF HurtNextTo(ev.before, ev.before[ev.acting]) # {}
    THEN /\ Len(ev.after) = Len(ev.before)
         /\ \E j \in HurtNextTo(ev.before, ev.before[ev.acting]) :
              /\ ev.after[j].status = ev.before[j].maxHealth
              /\ \A k \in DOMAIN ev.before : k # j => ev.after[k] = ev.before[k]
    ELSE /\ \A k \in DOMAIN ev.before : ev.after[k] = ev.before[k]
         /\ Len(ev.after) <= Len(ev.before) + 1
         /\ Len(ev.after) = Len(ev.before) + 1 =>
              /\ ev.after[Len(ev.after)].type = "STANDARD"
              /\ ev.after[Len(ev.after)].status = 1

\* C12 witness: a Healer with a free cell beside it healed the Durable brick
\* below it
C12HealedNotSpawned ==
  /\ ev.kind = "living"
  /\ ev.before[ev.acting].type = "HEALER"
  /\ HurtNextTo(ev.before, ev.before[ev.acting]) # {}
  /\ ValidSpots(ev.before, ev.before[ev.acting]) # <<>>
  /\ Len(ev.before) < MaxBricks

----------------------------------------------------------------------------
(* The collision slice: detectCircleRectCollision and the bounce off a     *)
(* brick.  One ball near the lower right corner of the brick of level 0.    *)
\* overlapX and overlapY of detectCircleRectCollision, doubled (the halves
\* of the width and of the height are kept exact)
OverlapX2(circle, rect) ==
  (2 * circle.radius + rect.width) - Abs(2 * circle.x - (2 * rect.x + rect.width))

OverlapY2(circle, rect) ==
  (2 * circle.radius + rect.height) - Abs(2 * circle.y - (2 * rect.y + rect.height))

\* the closest point to the circle within the rectangle
ClosestX(circle, rect) == Max(rect.x, Min(circle.x, rect.x + rect.width))
ClosestY(circle, rect) == Max(rect.y, Min(circle.y, rect.y + rect.height))

DistanceSquared(circle, rect) ==
  (circle.x - ClosestX(circle, rect)) * (circle.x - ClosestX(circle, rect))
    + (circle.y - ClosestY(circle, rect)) * (circle.y - ClosestY(circle, rect))

\* the Collision returned: hit alone, or hit and axis; no overlap is set
DetectCircleRectCollision(circle, rect) ==
  IF DistanceSquared(circle, rect) < circle.radius * circle.radius
  THEN IF OverlapX2(circle, rect) < OverlapY2(circle, rect)
       THEN [hit |-> TRUE, axis |-> "x"]
       ELSE [hit |-> TRUE, axis |-> "y"]
  ELSE [hit |-> FALSE]

\* collision.overlap || 1
OverlapOr1(collision) ==
  IF "overlap" \in DOMAIN collision /\ collision.overlap # 0
  THEN collision.overlap ELSE 1

\* update, "Bounce Physics"
BounceOff(ball, b, collision) ==
  IF collision.axis = "x"
  THEN [ball EXCEPT !.x = @ + (IF 2 * ball.x < 2 * b.x + b.width THEN -1 ELSE 1)
                                * OverlapOr1(collision),
                    !.dx = -@]
  ELSE [ball EXCEPT !.y = @ + (IF 2 * ball.y < 2 * b.y + b.height THEN -1 ELSE 1)
                                * OverlapOr1(collision),
                    !.dy = -@]

\* where the ball of the slice starts: around the lower right corner of the
\* brick
CornerReach == 9

CornerBalls(b) ==
  {[x |-> b.x + b.width + ox, y |-> b.y + b.height + oy, dx |-> dx, dy |-> -4,
    radius |-> BALL_RADIUS] :
     ox \in (-CornerReach)..CornerReach, oy \in (-CornerReach)..CornerReach,
     dx \in {-3, 3}}

\* the ball loop's brick collision for the one ball and the one brick, a
\* ball slower than the pierce threshold
BrickCollision ==
  /\ gameState = "PLAYING"
  /\ bricks[1].status > 0
  /\ balls' = IF DetectCircleRectCollision(balls[1], bricks[1]).hit
               THEN <<BounceOff(balls[1], bricks[1],
                                DetectCircleRectCollision(balls[1], bricks[1]))>>
               ELSE balls
  /\ ev' = [kind |-> "collision", circle |-> balls[1], rect |-> bricks[1],
            result |-> DetectCircleRectCollision(balls[1], bricks[1])]
  /\ UNCHANGED <<gameState, lives, levelIndex, bricks, powerUps, shrapnels, fx,
                 barrierActive, laserPending, hasTriggeredMercyEvent, isCriticalMode,
                 criticalHitCounter, criticalHeartTarget, isWaitingForFinalHeart,
                 finalHeartId, mercySpawns>>
  /\ UNCHANGED varsAux

InitCollision ==
  /\ gameState = "PLAYING"
  /\ lives = INITIAL_LIVES
  /\ levelIndex = 0
  /\ bricks = <<[InitBricks(0)[1] EXCEPT !.status = 2, !.maxHealth = 2,
                                         !.type = "DURABLE"]>>
  /\ balls \in {<<c>> : c \in CornerBalls(InitBricks(0)[1])}
  /\ powerUps = <<>>
  /\ shrapnels = 0
  /\ fx = {}
  /\ barrierActive = FALSE
  /\ laserPending = FALSE
  /\ hasTriggeredMercyEvent = FALSE
  /\ isCriticalMode = FALSE
  /\ criticalHitCounter = 0
  /\ criticalHeartTarget = 0
  /\ isWaitingForFinalHeart = FALSE
  /\ finalHeartId = 0
  /\ mercySpawns = 0
  /\ ev = NoEvent("none")
  /\ InitAux("MEDIUM")

NextCollision == BrickCollision

SpecCollision == InitCollision /\ [][NextCollision]_vars

\* C20 as stated: a hit is reported exactly when the squared distance from
\* the centre to the closest point of the rectangle is below radius squared;
\* on a hit the axis is that of the smaller overlap, X when they are equal,
\* and the result carries the overlap
C20DetectCircleRect ==
  ev.kind = "collision" =>
    /\ ev.result.hit <=>
         DistanceSquared(ev.circle, ev.rect) < ev.circle.radius * ev.circle.radius
    /\ ev.result.hit =>
         /\ ev.result.axis =
              (IF OverlapX2(ev.circle, ev.rect) <= OverlapY2(ev.circle, ev.rect)
               THEN "x" ELSE "y")
         /\ "overlap" \in DOMAIN ev.result

----------------------------------------------------------------------------
(* The multiball slice: the balls with their place, velocity (thousandths) *)
(* and stuckOffset, and what MULTIBALL makes of them.  The paddle stays     *)
(* where resetPaddle put it; the flight of a ball is not followed.          *)
FrameMs == 16
MaxMultiballFrames == 5

PaddleCenter(pad) == pad.x + pad.width \div 2

\* spawnBall(isActive, x, y, dx, dy)
SpawnBallFull(isActive, x, y, dx, dy) ==
  [active |-> isActive, fallen |-> FALSE, x |-> x, y |-> y, dx |-> dx, dy |-> dy,
   speed |-> SpawnBallSpeed(difficulty, difficultyMultiplier).speed,
   stuckOffset |-> 0]

\* spawnBall(false): the defaults of x, y, dx, dy
SpawnBallResting(pad) ==
  SpawnBallFull(FALSE, PaddleCenter(pad),
                CANVAS_HEIGHT - PADDLE_OFFSET_BOTTOM - PADDLE_HEIGHT - BALL_RADIUS - 1,
                0, 0)

\* a split of a resting ball that is not kept on the paddle
SplitBallUnclamped(b, first, pad) ==
  IF b.active
  THEN SpawnBallFull(TRUE, b.x, b.y,
                     MulDiv(b.dx, 8, 10) + (IF first THEN Milli ELSE -Milli), b.dy)
  ELSE [SpawnBallResting(pad) EXCEPT
          !.stuckOffset = b.stuckOffset + (IF first THEN -20 ELSE 20)]

\* the first or the second ball MULTIBALL splits from ball b
SplitBall(b, first, pad) ==
  IF b.active
  THEN SpawnBallFull(TRUE, b.x, b.y,
                     MulDiv(b.dx, 8, 10) + (IF first THEN Milli ELSE -Milli), b.dy)
  ELSE [SpawnBallResting(pad) EXCEPT
          !.stuckOffset =
             Max(-(pad.width \div 2 - BALL_RADIUS),
                 Min(pad.width \div 2 - BALL_RADIUS,
                     b.stuckOffset + (IF first THEN -20 ELSE 20)))]

\* ballsToAdd: two balls per ball of currentBalls, in order, as long as
\* spaceLeft lasts
BallsToAdd(currentBalls, spaceLeft, pad) ==
  [j \in 1..Min(2 * Len(currentBalls), spaceLeft) |->
     SplitBall(currentBalls[(j + 1) \div 2], j % 2 = 1, pad)]

\* the ball pushed when no ball is left after the split
FallbackBall(all, pad) ==
  IF Len(all) = 0
  THEN <<SpawnBallFull(TRUE, PaddleCenter(pad),
                       CANVAS_HEIGHT - PADDLE_OFFSET_BOTTOM - 20, 2 * Milli, -4 * Milli)>>
  ELSE all

\* activatePowerUp, case MULTIBALL
MultiballFull(bs, pad) ==
  IF MAX_BALLS - Len(bs) <= 0 THEN bs
  ELSE FallbackBall(bs \o BallsToAdd(bs, MAX_BALLS - Len(bs), pad), pad)

\* the filter of "Check Lives": no ball, the first ball or every active ball
\* has left the field
BallsKept(bs, fall) ==
  IF fall = "all" THEN SelectSeq(bs, LAMBDA b : ~b.active)
  ELSE IF fall = "first" /\ Len(bs) > 0 /\ bs[1].active THEN Tail(bs)
  ELSE bs

\* "Check Lives" after the filter: the balls resetLevel(true) leaves
AfterLifeCheck(kept, pad) ==
  IF Len(kept) > 0 THEN kept
  ELSE IF lives - 1 <= 0 THEN <<>> ELSE <<SpawnBallResting(pad)>>

\* a tick: the lives check, then the power-up loop, in which MULTIBALL may
\* be caught
TickMultiball ==
  /\ gameState = "PLAYING"
  /\ now < MaxMultiballFrames * FrameMs
  /\ now' = now + FrameMs
  /\ \E fall \in {"none", "first", "all"}, collected \in BOOLEAN :
       /\ lives' = IF Len(BallsKept(balls, fall)) = 0 THEN lives - 1 ELSE lives
       /\ gameState' = IF Len(BallsKept(balls, fall)) = 0 /\ lives - 1 <= 0
                        THEN "GAME_OVER" ELSE gameState
       /\ balls' = IF collected
                    THEN MultiballFull(AfterLifeCheck(BallsKept(balls, fall), paddle), paddle)
                    ELSE AfterLifeCheck(BallsKept(balls, fall), paddle)
       /\ ev' = [kind |-> "multiball", collected |-> collected,
                 before |-> AfterLifeCheck(BallsKept(balls, fall), paddle),
                 pad |-> paddle]
  /\ UNCHANGED <<levelIndex, bricks, powerUps, shrapnels, fx,
                 barrierActive, laserPending, hasTriggeredMercyEvent, isCriticalMode,
                 criticalHitCounter, criticalHeartTarget, isWaitingForFinalHeart,
                 finalHeartId, mercySpawns>>
  /\ UNCHANGED <<difficulty, difficultyMultiplier, paddle, powerUpState, score, streak>>

\* launchBalls: every resting ball leaves from where the paddle holds it
LaunchResting ==
  /\ gameState = "PLAYING"
  /\ \E k \in DOMAIN balls : ~balls[k].active
  /\ \E angle \in {<<3, 4, 5>>, <<-3, 4, 5>>} :
       balls' = [k \in DOMAIN balls |->
                  IF balls[k].active THEN balls[k]
                  ELSE Launched([balls[k] EXCEPT
                                   !.x = PaddleCenter(paddle) + balls[k].stuckOffset,
                                   !.y = CANVAS_HEIGHT - PADDLE_OFFSET_BOTTOM
                                           - BALL_RADIUS - 2],
                                angle)]
  /\ ev' = NoEvent("none")
  /\ streak' = 0
  /\ UNCHANGED <<gameState, lives, levelIndex, bricks, powerUps, shrapnels, fx,
                 barrierActive, laserPending, hasTriggeredMercyEvent, isCriticalMode,
                 criticalHitCounter, criticalHeartTarget, isWaitingForFinalHeart,
                 finalHeartId, mercySpawns>>
  /\ UNCHANGED <<difficulty, difficultyMultiplier, paddle, powerUpState, now, score>>

InitMultiball ==
  /\ gameState = "PLAYING"
  /\ lives = INITIAL_LIVES
  /\ levelIndex = 0
  /\ bricks = InitBricks(0)
  /\ difficulty \in Difficulties
  /\ difficultyMultiplier = 10
  /\ paddle = ResetPaddle(difficulty)
  /\ balls = <<SpawnBallResting(paddle)>>
  /\ powerUps = <<>>
  /\ shrapnels = 0
  /\ fx = {}
  /\ barrierActive = FALSE
  /\ laserPending = FALSE
  /\ hasTriggeredMercyEvent = FALSE
  /\ isCriticalMode = FALSE
  /\ criticalHitCounter = 0
  /\ criticalHeartTarget = 0
  /\ isWaitingForFinalHeart = FALSE
  /\ finalHeartId = 0
  /\ mercySpawns = 0
  /\ ev = NoEvent("none")
  /\ powerUpState = NoPowerUps
  /\ now = 0
  /\ score = 0
  /\ streak = 0

NextMultiball ==
  \/ TickMultiball
  \/ LaunchResting

SpecMultiball == InitMultiball /\ [][NextMultiball]_vars

\* what C24 says of the balls added to `before`, `after` being the result
SplitAsClaimed(before, after, pad) ==
  /\ SubSeq(after, 1, Len(before)) = before
  /\ \A j \in (Len(before) + 1)..Len(after) :
       LET parent == before[(j - Len(before) + 1) \div 2]
           first == (j - Len(before)) % 2 = 1
       IN /\ after[j].active = parent.active
          /\ parent.active =>
               /\ after[j].x = parent.x /\ after[j].y = parent.y
               /\ after[j].dy = parent.dy
               /\ after[j].dx = MulDiv(parent.dx, 8, 10) + (IF first THEN Milli ELSE -Milli)
          /\ ~parent.active =>
               /\ Abs(after[j].stuckOffset) <= pad.width \div 2 - BALL_RADIUS
               /\ after[j].stuckOffset # parent.stuckOffset + (IF first THEN -20 ELSE 20)
                    => Abs(after[j].stuckOffset) = pad.width \div 2 - BALL_RADIUS

----------------------------------------------------------------------------
(* The laser slice: Date.now(), laserFireTime, the paddle and the bricks   *)
(* of the last level of the model.  The drop rolls of the beam fail.        *)
LaserTimeStep == 1000
MaxLaserNow == 5000

\* update, "Check Laser Fire": the delay is over
LaserDue(state, t) == state.laserFireTime > 0 /\ t > state.laserFireTime

\* a tick: the beam when it is due, then the power-up loop, in which a LASER
\* may be caught
TickLaser ==
  /\ gameState = "PLAYING"
  /\ \E caught \in BOOLEAN :
       /\ bricks' = IF LaserDue(powerUpState, now)
                     THEN FireLaser(World, PaddleCenter(paddle)).bricks
                     ELSE bricks
       /\ powerUpState' =
            [powerUpState EXCEPT !.laserFireTime =
               IF caught THEN now + LASER_DELAY
               ELSE IF LaserDue(powerUpState, now) THEN 0 ELSE @]
       /\ ev' = [kind |-> "laser", fired |-> LaserDue(powerUpState, now),
                 caught |-> caught]
  /\ UNCHANGED <<gameState, lives, levelIndex, balls, powerUps, shrapnels, fx,
                 barrierActive, laserPending, hasTriggeredMercyEvent, isCriticalMode,
                 criticalHitCounter, criticalHeartTarget, isWaitingForFinalHeart,
                 finalHeartId, mercySpawns>>
  /\ UNCHANGED <<difficulty, difficultyMultiplier, paddle, now, score, streak>>

\* performDash, between two ticks
DashAside ==
  /\ gameState = "PLAYING"
  /\ \E direction \in {"left", "right"} : paddle' = PerformDash(paddle, direction)
  /\ ev' = NoEvent("none")
  /\ UNCHANGED <<gameState, refsLife, difficulty, difficultyMultiplier, powerUpState,
                 now, score, streak>>

\* wall-clock time goes by
LaserTimePasses ==
  /\ now + LaserTimeStep <= MaxLaserNow
  /\ now' = now + LaserTimeStep
  /\ ev' = NoEvent("none")
  /\ UNCHANGED <<gameState, refsLife, difficulty, difficultyMultiplier, paddle,
                 powerUpState, score, streak>>

InitLaser ==
  /\ gameState = "PLAYING"
  /\ lives = INITIAL_LIVES
  /\ levelIndex = LastLevel
  /\ bricks = InitBricks(LastLevel)
  /\ balls = <<SpawnBall(TRUE)>>
  /\ powerUps = <<>>
  /\ shrapnels = 0
  /\ fx = {}
  /\ barrierActive = FALSE
  /\ laserPending = FALSE
  /\ hasTriggeredMercyEvent = FALSE
  /\ isCriticalMode = FALSE
  /\ criticalHitCounter = 0
  /\ criticalHeartTarget = 0
  /\ isWaitingForFinalHeart = FALSE
  /\ finalHeartId = 0
  /\ mercySpawns = 0
  /\ ev = NoEvent("none")
  /\ InitAux("MEDIUM")

NextLaser ==
  \/ TickLaser
  \/ DashAside
  \/ LaserTimePasses

SpecLaser == InitLaser /\ [][NextLaser]_vars

\* the bricks as a beam around `center` leaves them: the live bricks whose
\* horizontal extent meets the band have health 0, the others are as before
BeamLeft(before, after, center) ==
  /\ DOMAIN after = DOMAIN before
  /\ \A i \in DOMAIN before :
       IF /\ before[i].status > 0
          /\ center + 6 >= before[i].x
          /\ center - 6 <= before[i].x + before[i].width
       THEN after[i] = [before[i] EXCEPT !.status = 0]
       ELSE after[i] = before[i]

\* the beam fires on the first tick after the delay, at the centre the
\* paddle has then, and the schedule is cleared
C25BeamWhenDue ==
  [][ ev'.kind = "laser" =>
        /\ ev'.fired <=> (powerUpState.laserFireTime > 0 /\ now > powerUpState.laserFireTime)
        /\ ev'.fired => BeamLeft(bricks, bricks', PaddleCenter(paddle))
        /\ ~ev'.fired => bricks' = bricks
        /\ (ev'.fired /\ ~ev'.caught) => powerUpState'.laserFireTime = 0 ]_vars

\* C25 as stated: each Laser activation leads to exactly one beam, fired on
\* the first tick after its 2-second delay: a beam that is scheduled stays
\* scheduled for the same time until it fires
C25OneBeamPerActivation ==
  [][ (powerUpState.laserFireTime > 0 /\ ~(ev'.kind = "laser" /\ ev'.fired))
        => powerUpState'.laserFireTime = powerUpState.laserFireTime ]_vars

----------------------------------------------------------------------------
(* The contact slice: one ball contact with a brick at a time, Lightning   *)
(* and Cluster running or not, on the last life with critical mode armed,   *)
(* at the first level index that allows LIGHTNING.  A small stage stands    *)
(* for the bricks of that level: a Turret with three bricks within reach    *)
(* of its lightning and one beyond.                                         *)
ContactStage ==
  [rows |-> 2, cols |-> 6, layout |-> <<7, 1, 2, 0, 0, 0,
                                        1, 1, 0, 0, 0, 0>>]

\* the refs after the brick collision of one ball
CommitContact(w) ==
  /\ bricks' = w.bricks
  /\ shrapnels' = w.shrapnels
  /\ powerUps' = w.powerUps
  /\ criticalHitCounter' = w.counter
  /\ isCriticalMode' = w.isCritical
  /\ hasTriggeredMercyEvent' = w.hasTriggered
  /\ mercySpawns' = w.mercySpawns

\* update, "Brick Collision": an active ball meets live brick i
BallContact ==
  /\ gameState = "PLAYING"
  /\ \E i \in LiveBricks, lightningActive \in BOOLEAN, clusterActive \in BOOLEAN :
       /\ CommitContact(BallHitsBrick(World, i, lightningActive, clusterActive, 3))
       /\ ev' = [kind |-> "contact", brick |-> i, lightning |-> lightningActive,
                 cluster |-> clusterActive]
  /\ UNCHANGED <<gameState, lives, levelIndex, balls, fx, barrierActive, laserPending,
                 criticalHeartTarget, isWaitingForFinalHeart, finalHeartId>>
  /\ UNCHANGED varsAux

InitContact ==
  /\ gameState = "PLAYING"
  /\ lives = 1
  /\ levelIndex = ClusterLevelIndex
  /\ bricks = InitBricksFrom(ContactStage, BrickWidthOf(ContactStage.cols), 0)
  /\ balls = <<SpawnBall(TRUE)>>
  /\ powerUps = <<>>
  /\ shrapnels = 0
  /\ fx = {}
  /\ barrierActive = FALSE
  /\ laserPending = FALSE
  /\ hasTriggeredMercyEvent = FALSE
  /\ isCriticalMode = TRUE
  /\ criticalHitCounter = 0
  /\ criticalHeartTarget \in TargetInputs
  /\ isWaitingForFinalHeart = FALSE
  /\ finalHeartId = 0
  /\ mercySpawns = 0
  /\ ev = NoEvent("none")
  /\ InitAux("MEDIUM")

NextContact == BallContact

SpecContact == InitContact /\ [][NextContact]_vars

\* the bricks right after the ball's own damage to brick i
AfterOwnDamage(bs, i) ==
  [bs EXCEPT ![i].status = IF bs[i].type = "PORTAL" THEN 0 ELSE @ - 1]

\* the live bricks of bs nearer than 150 px to the centre of brick i
WithinReach(bs, i) ==
  {j \in DOMAIN bs : bs[j].status > 0
                       /\ Dist2(bs[j], Cx2(bs[i]), Cy2(bs[i])) < 4 * 150 * 150}

\* the bricks whose health differs between mid and after
StruckBetween(mid, after) == {j \in DOMAIN mid : after[j].status # mid[j].status}

\* C26: the lightning a ball contact triggers damages at most 3 bricks, each
\* by exactly 1: bricks alive at trigger time and within the radius, the
\* nearest of them, all of them when there are no more than 3; no brick
\* beyond the radius or already destroyed is touched, without Lightning no
\* other brick is touched at all, and every brick destroyed gets its own
\* drop decision (the armed pity counter goes up by one for each)
C26LightningStrikesNearestThree ==
  [][ ev'.kind = "contact" =>
        /\ DOMAIN bricks' = DOMAIN bricks
        /\ ~ev'.lightning =>
             StruckBetween(AfterOwnDamage(bricks, ev'.brick), bricks') = {}
        /\ ev'.lightning =>
             /\ StruckBetween(AfterOwnDamage(bricks, ev'.brick), bricks')
                  \subseteq WithinReach(AfterOwnDamage(bricks, ev'.brick), ev'.brick)
             /\ Cardinality(StruckBetween(AfterOwnDamage(bricks, ev'.brick), bricks'))
                  = Min(3, Cardinality(WithinReach(AfterOwnDamage(bricks, ev'.brick),
                                                   ev'.brick)))
             /\ \A j \in StruckBetween(AfterOwnDamage(bricks, ev'.brick), bricks') :
                  /\ bricks'[j].status = AfterOwnDamage(bricks, ev'.brick)[j].status - 1
                  /\ \A k \in WithinReach(AfterOwnDamage(bricks, ev'.brick), ev'.brick)
                            \ StruckBetween(AfterOwnDamage(bricks, ev'.brick), bricks') :
                       Dist2(bricks[j], Cx2(bricks[ev'.brick]), Cy2(bricks[ev'.brick]))
                         <= Dist2(bricks[k], Cx2(bricks[ev'.brick]), Cy2(bricks[ev'.brick]))
        /\ (isCriticalMode /\ isCriticalMode') =>
             criticalHitCounter' - criticalHitCounter
               = Cardinality(DestroyedNow(bricks, bricks')) ]_vars

\* a contact under Lightning that left a live brick within the radius
\* unstruck and destroyed a chained brick
C26FourthInReachSpared ==
  /\ ev.kind = "contact"
  /\ ev.lightning
  /\ criticalHitCounter > 0
  /\ \E j \in DOMAIN bricks :
       /\ j # ev.brick
       /\ bricks[j].status = bricks[j].maxHealth
       /\ Dist2(bricks[j], Cx2(bricks[ev.brick]), Cy2(bricks[ev.brick])) < 4 * 150 * 150
  /\ Cardinality({j \in DOMAIN bricks : bricks[j].status < bricks[j].maxHealth}) = 3

\* C27 as stated: a ball contact with a brick that is no Portal lowers that
\* brick's health by exactly 1, whatever effects are running
C27ContactTakesOne ==
  [][ (ev'.kind = "contact" /\ bricks[ev'.brick].type # "PORTAL") =>
        bricks'[ev'.brick].status = bricks[ev'.brick].status - 1 ]_vars

----------------------------------------------------------------------------
(* The Mimic slice: one row of bricks with three Mimics, one ball that is   *)
(* somewhere else in every tick, on the last life with critical mode armed. *)
MimicStage == [rows |-> 1, cols |-> 6, layout |-> <<3, 1, 0, 3, 1, 3>>]

MIMIC_RANGE == 60

\* b.isMimicRevealed, a field no brick has when it is created
IsMimicRevealed(b) == "isMimicRevealed" \in DOMAIN b /\ b.isMimicRevealed

\* some active ball's centre is nearer than 60 px to the centre of b
BallInRange(b, bls) ==
  \E k \in DOMAIN bls :
    /\ bls[k].active
    /\ (2 * bls[k].x - Cx2(b)) * (2 * bls[k].x - Cx2(b))
         + (2 * bls[k].y - Cy2(b)) * (2 * bls[k].y - Cy2(b))
       < 4 * MIMIC_RANGE * MIMIC_RANGE

\* brick j put at newX would overlap another live brick
OverlapsLive(bs, j, newX) ==
  \E k \in DOMAIN bs :
    /\ k # j
    /\ bs[k].status > 0
    /\ newX < bs[k].x + bs[k].width
    /\ newX + bs[j].width > bs[k].x
    /\ bs[j].y < bs[k].y + bs[k].height
    /\ bs[j].y + bs[j].height > bs[k].y

\* a dodge to the right that does not look at the bricks
DodgeXUnchecked(bs, j) ==
  IF ~(bs[j].x + (bs[j].width + BRICK_PADDING) + bs[j].width > CANVAS_WIDTH)
  THEN bs[j].x + (bs[j].width + BRICK_PADDING)
  ELSE bs[j].x

\* where the dodge puts brick j: one cell right, else one cell left, else
\* where it is
DodgeX(bs, j) ==
  IF ~(bs[j].x + (bs[j].width + BRICK_PADDING) + bs[j].width > CANVAS_WIDTH)
     /\ ~OverlapsLive(bs, j, bs[j].x + (bs[j].width + BRICK_PADDING))
  THEN bs[j].x + (bs[j].width + BRICK_PADDING)
  ELSE IF ~(bs[j].x - (bs[j].width + BRICK_PADDING) < 0)
          /\ ~OverlapsLive(bs, j, bs[j].x - (bs[j].width + BRICK_PADDING))
       THEN bs[j].x - (bs[j].width + BRICK_PADDING)
       ELSE bs[j].x

\* a Mimic that dodges whenever a ball is near, revealed or not
MimicDodgeAgain(bs, j, bls) ==
  IF bs[j].type = "MIMIC" /\ bs[j].status > 0 /\ BallInRange(bs[j], bls)
  THEN [bs EXCEPT ![j] = ("isMimicRevealed" :> TRUE)
                           @@ [bs[j] EXCEPT !.x = DodgeX(bs, j)]]
  ELSE bs

\* the body of the forEach over the bricks, for brick j
MimicDodge(bs, j, bls) ==
  IF bs[j].type = "MIMIC" /\ ~IsMimicRevealed(bs[j]) /\ bs[j].status > 0
     /\ BallInRange(bs[j], bls)
  THEN [bs EXCEPT ![j] = ("isMimicRevealed" :> TRUE)
                           @@ [bs[j] EXCEPT !.x = DodgeX(bs, j)]]
  ELSE bs

RECURSIVE MimicLogic(_, _, _)
MimicLogic(bs, j, bls) ==
  IF j > Len(bs) THEN bs ELSE MimicLogic(MimicDodge(bs, j, bls), j + 1, bls)

\* the first live brick the ball touches, 0 when it touches none
FirstBrickHit(bs, ball) ==
  IF \E i \in DOMAIN bs : bs[i].status > 0 /\ DetectCircleRectCollision(ball, bs[i]).hit
  THEN CHOOSE i \in DOMAIN bs :
         /\ bs[i].status > 0 /\ DetectCircleRectCollision(ball, bs[i]).hit
         /\ \A k \in 1..(i - 1) :
              ~(bs[k].status > 0 /\ DetectCircleRectCollision(ball, bs[k]).hit)
  ELSE 0

\* the brick collision of the one ball, after the Mimics have dodged
HitAfterDodge(w, ball) ==
  IF ball.active /\ FirstBrickHit(w.bricks, ball) # 0
  THEN BallHitsBrick(w, FirstBrickHit(w.bricks, ball), FALSE, FALSE, 0)
  ELSE w

\* where the ball is after its move of a tick: under a cell touching the
\* row, under a cell near the row, beside a cell touching its left end, in
\* the open, or at rest on the paddle
BallSpots ==
  {[active |-> TRUE, fallen |-> FALSE, radius |-> BALL_RADIUS,
    x |-> BRICK_OFFSET_LEFT + c * (BrickWidthOf(MimicStage.cols) + BRICK_PADDING)
            + BrickWidthOf(MimicStage.cols) \div 2,
    y |-> BRICK_OFFSET_TOP + BRICK_HEIGHT + dy] :
     c \in 0..(MimicStage.cols - 1), dy \in {BALL_RADIUS - 1, 30}}
  \cup
  {[active |-> TRUE, fallen |-> FALSE, radius |-> BALL_RADIUS,
    x |-> BRICK_OFFSET_LEFT + c * (BrickWidthOf(MimicStage.cols) + BRICK_PADDING)
            - (BALL_RADIUS - 1),
    y |-> BRICK_OFFSET_TOP + BRICK_HEIGHT \div 2] :
     c \in 1..(MimicStage.cols - 1)}
  \cup
  {[active |-> a, fallen |-> FALSE, radius |-> BALL_RADIUS,
    x |-> CANVAS_WIDTH \div 2,
    y |-> IF a THEN CANVAS_HEIGHT \div 2
          ELSE CANVAS_HEIGHT - PADDLE_OFFSET_BOTTOM - PADDLE_HEIGHT - BALL_RADIUS - 1] :
     a \in BOOLEAN}

\* update, from the Mimic logic to the brick collision of the ball, the
\* ball going to spot
MimicStep(spot) ==
  /\ balls' = <<spot>>
  /\ CommitContact(HitAfterDodge([World EXCEPT !.bricks = MimicLogic(bricks, 1, balls)],
                                 spot))
  /\ ev' = [kind |-> "mimic",
            hit |-> IF spot.active
                    THEN FirstBrickHit(MimicLogic(bricks, 1, balls), spot) ELSE 0]
  /\ UNCHANGED <<gameState, lives, levelIndex, fx, barrierActive, laserPending,
                 criticalHeartTarget, isWaitingForFinalHeart, finalHeartId>>
  /\ UNCHANGED varsAux

MimicTick ==
  /\ gameState = "PLAYING"
  /\ \E spot \in BallSpots : MimicStep(spot)

InitMimic ==
  /\ gameState = "PLAYING"
  /\ lives = 1
  /\ levelIndex = 0
  /\ bricks = InitBricksFrom(MimicStage, BrickWidthOf(MimicStage.cols), 0)
  /\ balls \in {<<spot>> : spot \in {s \in BallSpots : ~s.active}}
  /\ powerUps = <<>>
  /\ shrapnels = 0
  /\ fx = {}
  /\ barrierActive = FALSE
  /\ laserPending = FALSE
  /\ hasTriggeredMercyEvent = FALSE
  /\ isCriticalMode = TRUE
  /\ criticalHitCounter = 0
  /\ criticalHeartTarget \in TargetInputs
  /\ isWaitingForFinalHeart = FALSE
  /\ finalHeartId = 0
  /\ mercySpawns = 0
  /\ ev = NoEvent("none")
  /\ InitAux("MEDIUM")

NextMimic == MimicTick

SpecMimic == InitMimic /\ [][NextMimic]_vars

\* the bricks as brick j finds them in a tick: those before it in the array
\* where the tick leaves them, the others where the tick found them
AsSeenBy(j) ==
  [k \in DOMAIN bricks |->
     IF k < j THEN [bricks[k] EXCEPT !.x = bricks'[k].x] ELSE bricks[k]]

\* brick j reacts in this tick: a live Mimic, not revealed, a ball in range
ReactsNow(j) ==
  /\ bricks[j].type = "MIMIC"
  /\ bricks[j].status > 0
  /\ ~IsMimicRevealed(bricks[j])
  /\ BallInRange(bricks[j], balls)

\* brick j at x would be on the canvas and on no other live brick
FreeCell(j, x) ==
  /\ x >= 0
  /\ x + bricks[j].width <= CANVAS_WIDTH
  /\ ~OverlapsLive(AsSeenBy(j), j, x)

\* C28: in every tick a brick that is a live, unrevealed Mimic with an active
\* ball's centre within the proximity radius becomes revealed and moves one
\* cell right if that cell is on the canvas and overlaps no live brick,
\* otherwise one cell left under the same condition, otherwise it stays;
\* every other brick, a revealed Mimic included, keeps its place and its
\* revealed flag; a brick that moved is on the canvas and on no live brick
C28MimicDodgesOnce ==
  [][ ev'.kind = "mimic" =>
        /\ DOMAIN bricks' = DOMAIN bricks
        /\ \A j \in DOMAIN bricks :
             /\ ReactsNow(j) =>
                  /\ IsMimicRevealed(bricks'[j])
                  /\ bricks'[j].x
                       = IF FreeCell(j, bricks[j].x + bricks[j].width + BRICK_PADDING)
                         THEN bricks[j].x + bricks[j].width + BRICK_PADDING
                         ELSE IF FreeCell(j, bricks[j].x - bricks[j].width - BRICK_PADDING)
                              THEN bricks[j].x - bricks[j].width - BRICK_PADDING
                              ELSE bricks[j].x
             /\ ~ReactsNow(j) =>
                  /\ bricks'[j].x = bricks[j].x
                  /\ IsMimicRevealed(bricks'[j]) = IsMimicRevealed(bricks[j])
             /\ bricks'[j].x # bricks[j].x => FreeCell(j, bricks'[j].x)
             /\ bricks'[j].y = bricks[j].y ]_vars

\* one Mimic revealed where it started, hemmed in, and another revealed one
\* cell from where it started, both alive
C28OneStayedOneMoved ==
  /\ ev.kind = "mimic"
  /\ \E j \in DOMAIN bricks :
       /\ bricks[j].status > 0
       /\ IsMimicRevealed(bricks[j])
       /\ bricks[j].x = InitBricksFrom(MimicStage, BrickWidthOf(MimicStage.cols), 0)[j].x
  /\ \E j \in DOMAIN bricks :
       /\ bricks[j].status > 0
       /\ IsMimicRevealed(bricks[j])
       /\ bricks[j].x # InitBricksFrom(MimicStage, BrickWidthOf(MimicStage.cols), 0)[j].x

----------------------------------------------------------------------------
(* The destroyed-brick slice: a Mimic, a Durable, a Healer and three        *)
(* Standard bricks in a row, under the brick tick (living bricks, laser,    *)
(* ball hits with Lightning and Cluster, shrapnel) and the Mimic tick.      *)
DeadStage == [rows |-> 1, cols |-> 6, layout |-> <<3, 2, 4, 1, 1, 1>>]

\* where the ball goes in this slice: under the first cell near the row, or
\* into the open
DeadSpots ==
  {s \in BallSpots :
     /\ s.active
     /\ \/ s.x = CANVAS_WIDTH \div 2
        \/ /\ s.x = BRICK_OFFSET_LEFT + BrickWidthOf(DeadStage.cols) \div 2
           /\ s.y = BRICK_OFFSET_TOP + BRICK_HEIGHT + 30}

\* what the brick tick is given in this slice: the Healer acts, or the laser
\* fires over the second column, or a ball hits one brick once or twice and
\* every shrapnel piece in flight flies on or meets that brick, or every
\* piece meets the same brick or leaves
DeadInputs ==
  {[acting |-> a, pick |-> p, laserFire |-> FALSE, paddleCenter |-> 400, hits |-> <<>>,
    lightningActive |-> FALSE, clusterActive |-> FALSE, shr |-> [k \in 1..shrapnels |-> 0]] :
     a \in ActingInputs \ {0}, p \in 0..1}
  \cup
  {[acting |-> 0, pick |-> 0, laserFire |-> TRUE, paddleCenter |-> 200, hits |-> <<>>,
    lightningActive |-> FALSE, clusterActive |-> FALSE, shr |-> [k \in 1..shrapnels |-> 0]]}
  \cup
  {[acting |-> 0, pick |-> 0, laserFire |-> FALSE, paddleCenter |-> 400, hits |-> h,
    lightningActive |-> l, clusterActive |-> c,
    shr |-> [k \in 1..shrapnels |-> IF f THEN h[1] ELSE 0]] :
     h \in {<<i>> : i \in LiveBricks} \cup {<<i, i>> : i \in LiveBricks},
     l \in BOOLEAN, c \in BOOLEAN, f \in BOOLEAN}
  \cup
  {[acting |-> 0, pick |-> 0, laserFire |-> FALSE, paddleCenter |-> 400, hits |-> <<>>,
    lightningActive |-> FALSE, clusterActive |-> FALSE, shr |-> [k \in 1..shrapnels |-> f]] :
     f \in {-1} \cup LiveBricks}

InitDead ==
  /\ gameState = "PLAYING"
  /\ lives = 1
  /\ levelIndex = ClusterLevelIndex
  /\ bricks = InitBricksFrom(DeadStage, BrickWidthOf(DeadStage.cols), 0)
  /\ balls \in {<<spot>> : spot \in {s \in BallSpots : ~s.active}}
  /\ powerUps = <<>>
  /\ shrapnels = 0
  /\ fx = {}
  /\ barrierActive = FALSE
  /\ laserPending = FALSE
  /\ hasTriggeredMercyEvent = FALSE
  /\ isCriticalMode = TRUE
  /\ criticalHitCounter = 0
  /\ criticalHeartTarget \in TargetInputs
  /\ isWaitingForFinalHeart = FALSE
  /\ finalHeartId = 0
  /\ mercySpawns = 0
  /\ ev = NoEvent("none")
  /\ InitAux("MEDIUM")

\* update, from the living bricks to the shrapnel
BrickTick ==
  /\ gameState = "PLAYING"
  /\ \E in \in DeadInputs : CommitBricks(UpdateBricks(World, in))
  /\ ev' = NoEvent("none")
  /\ UNCHANGED <<gameState, lives, levelIndex, balls, powerUps, fx, barrierActive,
                 laserPending, hasTriggeredMercyEvent, isCriticalMode,
                 criticalHitCounter, criticalHeartTarget, isWaitingForFinalHeart,
                 finalHeartId, mercySpawns>>
  /\ UNCHANGED varsAux

\* update, from the Mimic logic to the brick collision of the ball
DodgeTick ==
  /\ gameState = "PLAYING"
  /\ \E spot \in DeadSpots : MimicStep(spot)

NextDead ==
  \/ BrickTick
  \/ DodgeTick

SpecDead == InitDead /\ [][NextDead]_vars

\* brick n of the next state lies on a neighbour cell of a brick that is a
\* live Healer or Spore now
SpawnedByLive(n) ==
  \E k \in DOMAIN bricks :
    /\ bricks[k].status > 0
    /\ bricks[k].type \in {"HEALER", "SPORE"}
    /\ \E m \in 1..4 : /\ Neighbors(bricks[k])[m].x = bricks'[n].x
                        /\ Neighbors(bricks[k])[m].y = bricks'[n].y

\* C29: a brick whose health is <= 0 is left exactly as it is by every tick
\* (no ball, shrapnel, laser or lightning takes health from it, no Healer
\* gives it health, it does not dodge); every brick a tick adds lies next to
\* a live Healer or Spore; and a Mimic that reacts goes to the cell to its
\* right whenever that cell is on the canvas and no live brick overlaps it,
\* whatever destroyed brick lies there
C29DestroyedBricksInert ==
  [][ /\ \A i \in DOMAIN bricks :
           bricks[i].status <= 0 => (i \in DOMAIN bricks' /\ bricks'[i] = bricks[i])
      /\ \A n \in DOMAIN bricks' \ DOMAIN bricks : SpawnedByLive(n)
      /\ \A j \in DOMAIN bricks :
           (/\ ev'.kind = "mimic"
            /\ ReactsNow(j)
            /\ bricks[j].x + 2 * bricks[j].width + BRICK_PADDING <= CANVAS_WIDTH
            /\ ~OverlapsLive(AsSeenBy(j), j, bricks[j].x + bricks[j].width + BRICK_PADDING))
           => bricks'[j].x = bricks[j].x + bricks[j].width + BRICK_PADDING ]_vars

\* a brick a Healer spawned lies where a destroyed brick lies, and a revealed
\* Mimic lies where another destroyed brick lies
C29LiveOverDestroyed ==
  /\ \E i, n \in DOMAIN bricks :
       /\ bricks[i].status <= 0
       /\ n > Len(InitBricksFrom(DeadStage, BrickWidthOf(DeadStage.cols), 0))
       /\ bricks[n].status > 0
       /\ bricks[n].x = bricks[i].x /\ bricks[n].y = bricks[i].y
  /\ \E i, j \in DOMAIN bricks :
       /\ bricks[i].status <= 0
       /\ bricks[j].type = "MIMIC" /\ bricks[j].status > 0
       /\ IsMimicRevealed(bricks[j])
       /\ bricks[j].x = bricks[i].x /\ bricks[j].y = bricks[i].y

----------------------------------------------------------------------------
(* The drop slice: ball contacts whose drop attempt passes the chance test, *)
(* at a level index on either side of the first gate of the pool and at    *)
(* the first level that has Turret bricks, with both lives left (no pity    *)
(* counter).                                                                *)
TurretLevelIndex == 13

\* a row of the level: a Turret brick among the bricks from the first level
\* that has them, a Durable brick in its place before
DropStage(level) ==
  [rows |-> 1, cols |-> 3,
   layout |-> IF level >= TurretLevelIndex THEN <<7, 1, 1>> ELSE <<2, 1, 1>>]

\* level indexes below the first gate, between the gates and past the second
DropLevels == {0, 2, TurretLevelIndex}

\* the tier and the pick of the weighted roll
DropRolls == [tier : 1..3, pick : 0..2]

\* update, "Brick Collision": an active ball meets live brick i, and the
\* drop attempt, when the brick is destroyed, passes the chance test
ContactWithRoll ==
  /\ gameState = "PLAYING"
  /\ \E i \in LiveBricks, roll \in DropRolls :
       /\ CommitContact(BallHitsBrick([World EXCEPT !.rolls = <<roll>>], i,
                                      FALSE, FALSE, 0))
       /\ ev' = [kind |-> "drop", brick |-> i, tier |-> roll.tier]
  /\ UNCHANGED <<gameState, lives, levelIndex, balls, fx, barrierActive, laserPending,
                 criticalHeartTarget, isWaitingForFinalHeart, finalHeartId>>
  /\ UNCHANGED varsAux

InitDrop ==
  /\ gameState = "PLAYING"
  /\ lives = INITIAL_LIVES
  /\ levelIndex \in DropLevels
  /\ bricks = InitBricksFrom(DropStage(levelIndex), BrickWidthOf(3), 0)
  /\ balls = <<SpawnBall(TRUE)>>
  /\ powerUps = <<>>
  /\ shrapnels = 0
  /\ fx = {}
  /\ barrierActive = FALSE
  /\ laserPending = FALSE
  /\ hasTriggeredMercyEvent = FALSE
  /\ isCriticalMode = FALSE
  /\ criticalHitCounter = 0
  /\ criticalHeartTarget = 0
  /\ isWaitingForFinalHeart = FALSE
  /\ finalHeartId = 0
  /\ mercySpawns = 0
  /\ ev = NoEvent("none")
  /\ InitAux("MEDIUM")

NextDrop == ContactWithRoll

SpecDrop == InitDrop /\ [][NextDrop]_vars

\* C30 as stated: every power-up the drop roll has spawned at level index L
\* has a type of the level-gated pool of L
C30DropsAreUnlocked ==
  \A k \in DOMAIN powerUps :
    powerUps[k].type \in Range(GetAllowedPowerUps(levelIndex))

\* what holds of the roll: a type of the level-gated pool or, while a Turret
\* brick is alive, ARMOR; and Heart only where no tier holds a type
C30DropsUnlockedOrArmor ==
  [][ ev'.kind = "drop" =>
        \A k \in DOMAIN powerUps' \ DOMAIN powerUps :
          /\ \/ powerUps'[k].type \in Range(GetAllowedPowerUps(levelIndex))
             \/ /\ powerUps'[k].type = "ARMOR"
                /\ \E t \in DOMAIN bricks' :
                     bricks'[t].type = "TURRET" /\ bricks'[t].status > 0
          /\ powerUps'[k].type # "HEART" ]_vars

----------------------------------------------------------------------------
(* The timed-effect slice: the five timed effects against Date.now(), two   *)
(* kinds of them in one run, and the reset a new level brings.  The history *)
(* keeps, for every effect, the clock reading of its last collection.       *)
TimedEffects == {"ENLARGE", "BARRIER", "STICKY", "LIGHTNING", "CLUSTER"}

TimedStep == 2500
MaxTimedNow == 15000
MaxTimedKinds == 2

\* the clock reading at which `type` was last collected, -1 when never
CollectedAt(e, type) ==
  IF "collectedAt" \in DOMAIN e THEN e.collectedAt[type] ELSE -1

\* the effects in force in a tick at the clock reading t, w being the refs
\* after the expiry checks
InForce(w, t) ==
  {type \in TimedEffects :
     CASE type = "ENLARGE" -> w.paddle.isEnlarged
       [] type = "BARRIER" -> w.barrierActive
       [] type = "STICKY" -> t < w.powerUpState.stickyEndTime
       [] type = "LIGHTNING" -> t < w.powerUpState.lightningEndTime
       [] OTHER -> t < w.powerUpState.clusterEndTime}

\* React commits the tick of this slice
CommitTimed(w, active, caught) ==
  /\ gameState' = w.gsNext
  /\ lives' = w.livesNext
  /\ paddle' = w.paddle
  /\ powerUpState' = w.powerUpState
  /\ barrierActive' = w.barrierActive
  /\ balls' = w.balls
  /\ isWaitingForFinalHeart' = w.isWaiting
  /\ finalHeartId' = w.finalHeartId
  /\ ev' = [kind |-> "timed", active |-> active, caught |-> caught,
            collectedAt |-> [type \in TimedEffects |->
                               IF type = caught THEN now ELSE CollectedAt(ev, type)]]

\* update with Date.now() = now; the paddle may catch a timed power-up
TickTimed ==
  /\ gameState = "PLAYING"
  /\ \E caught \in {"none"} \cup
                    {type \in TimedEffects :
                       \/ CollectedAt(ev, type) >= 0
                       \/ Cardinality({u \in TimedEffects : CollectedAt(ev, u) >= 0})
                            < MaxTimedKinds} :
       CommitTimed(UpdateClock(ClockWorld, [fall |-> FALSE, caught |-> caught]),
                   InForce(ExpireTimed(ClockWorld, now), now), caught)
  /\ UNCHANGED <<levelIndex, bricks, powerUps, shrapnels, fx, laserPending,
                 hasTriggeredMercyEvent, isCriticalMode, criticalHitCounter,
                 criticalHeartTarget, mercySpawns>>
  /\ UNCHANGED <<difficulty, difficultyMultiplier, now, score, streak>>

\* wall-clock time goes by
TimedTimePasses ==
  /\ now + TimedStep <= MaxTimedNow
  /\ now' = now + TimedStep
  /\ ev' = [kind |-> "time", active |-> {}, caught |-> "none",
            collectedAt |-> [type \in TimedEffects |-> CollectedAt(ev, type)]]
  /\ UNCHANGED <<gameState, refsLife, difficulty, difficultyMultiplier, paddle, powerUpState,
                 score, streak>>

\* the level is cleared: the timer of handleLevelComplete and the Level
\* Update Listener (resetLevel(false), resetPaddle) bring the next level
TimedAdvance ==
  /\ gameState = "PLAYING"
  /\ levelIndex + 1 < NumLevels
  /\ levelIndex' = levelIndex + 1
  /\ bricks' = InitBricks(levelIndex + 1)
  /\ balls' = <<SpawnBallAt(FALSE, ResetPaddle(difficulty))>>
  /\ powerUps' = <<>>
  /\ shrapnels' = 0
  /\ fx' = {}
  /\ barrierActive' = FALSE
  /\ laserPending' = FALSE
  /\ isWaitingForFinalHeart' = FALSE
  /\ finalHeartId' = 0
  /\ paddle' = ResetPaddle(difficulty)
  /\ powerUpState' = NoPowerUps
  /\ ev' = [kind |-> "reset", active |-> {}, caught |-> "none",
            collectedAt |-> [type \in TimedEffects |-> CollectedAt(ev, type)]]
  /\ UNCHANGED <<gameState, lives, hasTriggeredMercyEvent, isCriticalMode,
                 criticalHitCounter, criticalHeartTarget, mercySpawns>>
  /\ UNCHANGED <<difficulty, difficultyMultiplier, now, score, streak>>

NextTimed ==
  \/ TickTimed
  \/ TimedTimePasses
  \/ TimedAdvance

SpecTimed == InitClock /\ [][NextTimed]_vars

\* C31 as stated: an effect collected at t is in force on every tick whose
\* clock reading is before t + duration and on no tick whose clock reading
\* is after it
C31InForceUntilEnd ==
  [][ ev'.kind = "timed" =>
        \A type \in TimedEffects :
          CollectedAt(ev, type) >= 0 =>
            /\ now < CollectedAt(ev, type) + DurationOf(type) => type \in ev'.active
            /\ now > CollectedAt(ev, type) + DurationOf(type) => type \notin ev'.active ]_vars

\* C31, amended: an effect whose end-time E is set is in force on every tick
\* whose clock reading is before E and on no tick whose clock reading is
\* after E, and no effect without an end-time is in force; a collection at t
\* sets the end-time to t + duration, whatever it was; a tick changes no
\* end-time but the one of the effect it collects; only the reset of a new
\* level clears the end-times, so that until then the end-time is the last
\* collection time plus the duration
C31InForceUntilEndOrReset ==
  [][ /\ ev'.kind = "timed" =>
           \A type \in TimedEffects :
             /\ now < powerUpState[EndField(type)] => type \in ev'.active
             /\ now > powerUpState[EndField(type)] => type \notin ev'.active
             /\ powerUpState'[EndField(type)]
                  = IF ev'.caught = type THEN now + DurationOf(type)
                    ELSE powerUpState[EndField(type)]
      /\ \A type \in TimedEffects :
           powerUpState'[EndField(type)] > 0 =>
             powerUpState'[EndField(type)] = CollectedAt(ev', type) + DurationOf(type)
      /\ (\E type \in TimedEffects :
            powerUpState'[EndField(type)] = 0 /\ powerUpState[EndField(type)] > 0)
           => ev'.kind = "reset" ]_vars

\* a tick in which one effect, collected after the start of the run, is over
\* and another is in force
C31OneOverOneInForce ==
  /\ ev.kind = "timed"
  /\ \E a, b \in TimedEffects :
       /\ a \notin ev.active
       /\ 0 < powerUpState[EndField(a)] /\ powerUpState[EndField(a)] < now
       /\ CollectedAt(ev, a) > 0
       /\ b \in ev.active
       /\ now < powerUpState[EndField(b)]

----------------------------------------------------------------------------
(* The floor slice: one or two balls in the strip above the floor, beside   *)
(* the paddle, with the Barrier running or not, against Date.now().  A ball *)
(* is followed as long as it is in the strip.                               *)
FloorStripTop == 520
FloorTimeStep == 5000
MaxFloorNow == 15000

\* a ball as far as the floor goes
FloorBallAt(isActive, y, dy) == [active |-> isActive, y |-> y, dy |-> dy]

\* spawnBall(false): the ball rests on the paddle
RestingFloorBall ==
  FloorBallAt(FALSE, CANVAS_HEIGHT - PADDLE_OFFSET_BOTTOM - PADDLE_HEIGHT - BALL_RADIUS - 1, 0)

\* the ball is active and its move of this tick takes it past the floor
ReachesFloor(b) ==
  /\ b.active
  /\ ~(b.y + b.dy - BALL_RADIUS < 0)
  /\ b.y + b.dy + BALL_RADIUS > CANVAS_HEIGHT

\* a ball the Barrier does not hold
FloorBallThrough(b, barrier) ==
  IF ~b.active
  THEN [b EXCEPT !.y = CANVAS_HEIGHT - PADDLE_OFFSET_BOTTOM - BALL_RADIUS - 2]
  ELSE IF b.y + b.dy - BALL_RADIUS < 0
       THEN [b EXCEPT !.y = BALL_RADIUS, !.dy = -b.dy]
  ELSE IF b.y + b.dy + BALL_RADIUS > CANVAS_HEIGHT
       THEN [b EXCEPT !.active = FALSE, !.y = CANVAS_HEIGHT + 100]
  ELSE [b EXCEPT !.y = b.y + b.dy]

\* the ball loop for one ball: stick to the paddle, or move, the top wall,
\* the floor or the shield
FloorBall(b, barrier) ==
  IF ~b.active
  THEN [b EXCEPT !.y = CANVAS_HEIGHT - PADDLE_OFFSET_BOTTOM - BALL_RADIUS - 2]
  ELSE IF b.y + b.dy - BALL_RADIUS < 0
       THEN [b EXCEPT !.y = BALL_RADIUS, !.dy = -b.dy]
  ELSE IF b.y + b.dy + BALL_RADIUS > CANVAS_HEIGHT
       THEN IF barrier
            THEN [b EXCEPT !.y = CANVAS_HEIGHT - BALL_RADIUS, !.dy = -Abs(b.dy)]
            ELSE [b EXCEPT !.active = FALSE, !.y = CANVAS_HEIGHT + 100]
  ELSE [b EXCEPT !.y = b.y + b.dy]

\* the ball loop and the filter of "Check Lives"
FloorBalls(bs, barrier) ==
  SelectSeq([k \in DOMAIN bs |-> FloorBall(bs[k], barrier)],
            LAMBDA b : b.y < CANVAS_HEIGHT + 50)

\* the Barrier after "Check Shield Expiry"
ShieldUp == barrierActive /\ ~(now > powerUpState.barrierEndTime)

\* update: shield expiry, the ball loop, the lives check, and the power-up
\* loop, in which BARRIER may be caught
TickFloor ==
  /\ gameState = "PLAYING"
  /\ \A k \in DOMAIN balls : balls[k].active => balls[k].y >= FloorStripTop
  /\ \E caught \in BOOLEAN :
       /\ barrierActive' = (ShieldUp \/ caught)
       /\ powerUpState' = IF caught
                           THEN [powerUpState EXCEPT !.barrierEndTime = now + BARRIER_DURATION]
                           ELSE powerUpState
       /\ ev' = [kind |-> "floor", shield |-> ShieldUp, caught |-> caught]
  /\ IF ~isWaitingForFinalHeart /\ Len(FloorBalls(balls, ShieldUp)) = 0
     THEN /\ lives' = lives - 1
          /\ streak' = 0
          /\ IF lives - 1 <= 0
             THEN /\ gameState' = "GAME_OVER"
                  /\ balls' = <<>>
             ELSE /\ gameState' = gameState
                  /\ balls' = <<RestingFloorBall>>
     ELSE /\ balls' = FloorBalls(balls, ShieldUp)
          /\ UNCHANGED <<lives, streak, gameState>>
  /\ UNCHANGED <<levelIndex, bricks, powerUps, shrapnels, fx, laserPending,
                 hasTriggeredMercyEvent, isCriticalMode, criticalHitCounter,
                 criticalHeartTarget, isWaitingForFinalHeart, finalHeartId, mercySpawns>>
  /\ UNCHANGED <<difficulty, difficultyMultiplier, paddle, now, score>>

\* launchBalls: the resting balls leave upwards
LaunchFloor ==
  /\ gameState = "PLAYING"
  /\ \E k \in DOMAIN balls : ~balls[k].active
  /\ balls' = [k \in DOMAIN balls |->
                IF balls[k].active THEN balls[k]
                ELSE [balls[k] EXCEPT !.active = TRUE, !.dy = -BallSpeed(difficulty)]]
  /\ streak' = 0
  /\ ev' = NoEvent("none")
  /\ UNCHANGED <<gameState, lives, levelIndex, bricks, powerUps, shrapnels, fx,
                 barrierActive, laserPending, hasTriggeredMercyEvent, isCriticalMode,
                 criticalHitCounter, criticalHeartTarget, isWaitingForFinalHeart,
                 finalHeartId, mercySpawns>>
  /\ UNCHANGED <<difficulty, difficultyMultiplier, paddle, powerUpState, now, score>>

\* wall-clock time goes by
FloorTimePasses ==
  /\ now + FloorTimeStep <= MaxFloorNow
  /\ now' = now + FloorTimeStep
  /\ ev' = NoEvent("none")
  /\ UNCHANGED <<gameState, refsLife, difficulty, difficultyMultiplier, paddle,
                 powerUpState, score, streak>>

\* a game on its first level, one or two balls in flight in the strip, the
\* Barrier caught at Date.now() = 0 or not at all
InitFloor ==
  /\ gameState = "PLAYING"
  /\ lives \in 1..INITIAL_LIVES
  /\ levelIndex = 0
  /\ bricks = InitBricks(0)
  /\ balls \in {<<FloorBallAt(TRUE, y, dy)>> :
                   y \in {570, 586}, dy \in {BallSpeed("MEDIUM"), -BallSpeed("MEDIUM"), MAX_BALL_SPEED}}
              \cup {<<FloorBallAt(TRUE, y, dy), FloorBallAt(TRUE, z, dz)>> :
                      y \in {570, 586}, dy \in {BallSpeed("MEDIUM"), MAX_BALL_SPEED},
                      z \in {570, 586}, dz \in {BallSpeed("MEDIUM"), -BallSpeed("MEDIUM")}}
  /\ powerUps = <<>>
  /\ shrapnels = 0
  /\ fx = {}
  /\ barrierActive \in BOOLEAN
  /\ laserPending = FALSE
  /\ hasTriggeredMercyEvent = FALSE
  /\ isCriticalMode = FALSE
  /\ criticalHitCounter = 0
  /\ criticalHeartTarget = 0
  /\ isWaitingForFinalHeart = FALSE
  /\ finalHeartId = 0
  /\ mercySpawns = 0
  /\ ev = NoEvent("none")
  /\ difficulty = "MEDIUM"
  /\ difficultyMultiplier = 10
  /\ paddle = ResetPaddle("MEDIUM")
  /\ powerUpState = [NoPowerUps EXCEPT
                       !.barrierEndTime = IF barrierActive THEN BARRIER_DURATION ELSE 0]
  /\ now = 0
  /\ score = 0
  /\ streak = 0

NextFloor ==
  \/ TickFloor
  \/ LaunchFloor
  \/ FloorTimePasses

SpecFloor == InitFloor /\ [][NextFloor]_vars

\* C32: in a tick in which the Barrier is up, every ball that reaches the
\* floor stays active with dy = -|dy|, no life is lost, the game goes on and
\* the number of balls is what it was; in a tick in which it is not, the
\* balls that reach the floor are gone from the collection: the active balls
\* left are the active balls that did not reach it
C32BarrierHoldsBalls ==
  [][ ev'.kind = "floor" =>
        /\ ev'.shield =>
             /\ lives' = lives
             /\ gameState' = gameState
             /\ Len(balls') = Len(balls)
             /\ \A k \in DOMAIN balls :
                  ReachesFloor(balls[k]) =>
                    /\ balls'[k].active
                    /\ balls'[k].dy = -Abs(balls[k].dy)
                    /\ balls'[k].y = CANVAS_HEIGHT - BALL_RADIUS
        /\ ~ev'.shield =>
             /\ Cardinality({k \in DOMAIN balls' : balls'[k].active})
                  = Cardinality({k \in DOMAIN balls :
                                   balls[k].active /\ ~ReachesFloor(balls[k])})
             /\ \A k \in DOMAIN balls' : balls'[k].y < CANVAS_HEIGHT + 50 ]_vars

\* the Barrier has just turned back the two balls in play, on the last life
C32BothTurnedBack ==
  /\ ev.kind = "floor"
  /\ ev.shield
  /\ lives = 1
  /\ Len(balls) = 2
  /\ \A k \in DOMAIN balls :
       balls[k].active /\ balls[k].y = CANVAS_HEIGHT - BALL_RADIUS /\ balls[k].dy < 0

----------------------------------------------------------------------------
(* The resting-ball slice: one ball that rests on the paddle or flies, the  *)
(* paddle moved, dashed, enlarged and shrunk, the ball aimed, launched and  *)
(* caught by a sticky paddle, against Date.now().                           *)
StickTimeStep == 6000
MaxStickNow == 12000
StickRight == 350       \* the paddle is followed in the left half of the field
aimSpeed == 5

\* (paddle.width / 2) - BALL_RADIUS
MaxOffset(pad) == (pad.width \div 2) - BALL_RADIUS

\* what the player does about aim and paddle in one tick: nothing, the Down
\* key held with an arrow key (aim), a touch in the upper zone at the left
\* edge or the right edge of the canvas (factor -1, 1), a touch in the lower
\* zone at the left edge of the canvas
StickMoves ==
  {[kind |-> "none"]}
    \cup {[kind |-> "aimKeys", right |-> TRUE, left |-> FALSE],
          [kind |-> "aimKeys", right |-> FALSE, left |-> TRUE]}
    \cup {[kind |-> "aimTouch", factor |-> f] : f \in {-1, 1}}
    \cup {[kind |-> "touch", right |-> FALSE, left |-> FALSE, tx |-> 0]}

\* update, "AIMING LOGIC", for one resting ball
AimBall(b, pad, mv) ==
  IF b.active THEN b
  ELSE CASE mv.kind = "aimTouch" -> [b EXCEPT !.stuckOffset = mv.factor * MaxOffset(pad)]
         [] mv.kind = "aimKeys" ->
              [b EXCEPT !.stuckOffset =
                 Max(-MaxOffset(pad),
                     Min(MaxOffset(pad),
                         @ + (IF mv.right THEN aimSpeed ELSE 0)
                           - (IF mv.left THEN aimSpeed ELSE 0)))]
         [] OTHER -> b

\* where a flying ball may be when the tick tests it against the paddle:
\* over the left corner (1), over the middle (2), over the right corner (3)
SpotAt(pad, where) ==
  [x |-> IF where = 1 THEN pad.x - 5
         ELSE IF where = 2 THEN pad.x + (pad.width \div 2)
         ELSE pad.x + pad.width + 5,
   y |-> CANVAS_HEIGHT - PADDLE_OFFSET_BOTTOM - 5,
   radius |-> BALL_RADIUS]

PaddleRect(pad) ==
  [x |-> pad.x, y |-> CANVAS_HEIGHT - PADDLE_OFFSET_BOTTOM, width |-> pad.width,
   height |-> PADDLE_HEIGHT]

\* a catch that centres the ball on the paddle
StickyCatchCentred(b, pad, spot) ==
  [b EXCEPT !.active = FALSE, !.x2 = 2 * pad.x + pad.width, !.stuckOffset = 0]

\* update, "Paddle Collision" with stickyActive: the ball is caught where
\* it is
StickyCatch(b, pad, spot) ==
  [b EXCEPT !.active = FALSE, !.x2 = 2 * spot.x,
            !.stuckOffset = spot.x - (pad.x + (pad.width \div 2))]

\* the ball loop for the ball of this slice; where is 0 for a ball that
\* flies away from the paddle
StickBall(b, pad, sticky, where) ==
  IF ~b.active THEN StickToPaddle(b, pad)
  ELSE IF where # 0 /\ sticky
            /\ DetectCircleRectCollision(SpotAt(pad, where), PaddleRect(pad)).hit
       THEN StickyCatch(b, pad, SpotAt(pad, where))
  ELSE b

\* the paddle after the expiry of Enlarge and the movement logic
StickPaddle(mv) ==
  MovePaddle(ExpireEnlarge(paddle, difficulty, now > powerUpState.enlargeEndTime), mv)

\* update: the expiry of Enlarge, the aiming logic, the paddle movement,
\* the ball loop, and the power-up loop, in which ENLARGE or STICKY may be
\* caught
TickStick ==
  /\ gameState = "PLAYING"
  /\ \E mv \in StickMoves, where \in {0, 1, 2, 3}, caught \in {"none", "ENLARGE"} :
       /\ StickPaddle(mv).x <= StickRight
       /\ (mv.kind = "aimKeys" \/ mv.kind = "aimTouch") => \E k \in DOMAIN balls : ~balls[k].active
       /\ where # 0 => \E k \in DOMAIN balls : balls[k].active
       /\ balls' = [k \in DOMAIN balls |->
                     StickBall(AimBall(balls[k],
                                       ExpireEnlarge(paddle, difficulty,
                                                     now > powerUpState.enlargeEndTime), mv),
                               StickPaddle(mv), now < powerUpState.stickyEndTime,
                               where)]
       /\ paddle' = IF caught = "ENLARGE" THEN ActivateEnlarge(StickPaddle(mv))
                    ELSE StickPaddle(mv)
       /\ powerUpState' =
            IF caught = "ENLARGE"
            THEN [powerUpState EXCEPT !.enlargeEndTime = now + ENLARGE_DURATION]
            ELSE powerUpState
       /\ ev' = [kind |-> "stick", caught |-> caught,
                 ballCaught |-> \E k \in DOMAIN balls : balls[k].active /\ ~balls'[k].active]
  /\ UNCHANGED <<gameState, lives, levelIndex, bricks, powerUps, shrapnels, fx,
                 barrierActive, laserPending, hasTriggeredMercyEvent, isCriticalMode,
                 criticalHitCounter, criticalHeartTarget, isWaitingForFinalHeart,
                 finalHeartId, mercySpawns>>
  /\ UNCHANGED <<difficulty, difficultyMultiplier, now, score, streak>>

\* Shift, or a double tap in the lower zone: performDash
DashStick ==
  /\ \E direction \in {"left", "right"} :
       /\ PerformDash(paddle, direction).x <= StickRight
       /\ paddle' = PerformDash(paddle, direction)
  /\ ev' = [kind |-> "dash", caught |-> "none", ballCaught |-> FALSE]
  /\ UNCHANGED <<gameState, refsLife, difficulty, difficultyMultiplier, powerUpState,
                 now, score, streak>>

\* launchBalls: the resting balls leave; the flight is not followed, and
\* x and stuckOffset, which a catch writes anew, are left at 0
LaunchStick ==
  /\ gameState = "PLAYING"
  /\ \E k \in DOMAIN balls : ~balls[k].active
  /\ balls' = [k \in DOMAIN balls |->
                [balls[k] EXCEPT !.active = TRUE, !.x2 = 0, !.stuckOffset = 0]]
  /\ ev' = [kind |-> "launch", caught |-> "none", ballCaught |-> FALSE]
  /\ UNCHANGED <<gameState, lives, levelIndex, bricks, powerUps, shrapnels, fx,
                 barrierActive, laserPending, hasTriggeredMercyEvent, isCriticalMode,
                 criticalHitCounter, criticalHeartTarget, isWaitingForFinalHeart,
                 finalHeartId, mercySpawns>>
  /\ UNCHANGED <<difficulty, difficultyMultiplier, paddle, powerUpState, now, score,
                 streak>>

\* wall-clock time goes by
StickTimePasses ==
  /\ now + StickTimeStep <= MaxStickNow
  /\ now' = now + StickTimeStep
  /\ ev' = [kind |-> "time", caught |-> "none", ballCaught |-> FALSE]
  /\ UNCHANGED <<gameState, refsLife, difficulty, difficultyMultiplier, paddle,
                 powerUpState, score, streak>>

\* a game on its first level with the ball at rest on the paddle and Sticky
\* caught at Date.now() = 0
InitStick ==
  /\ gameState = "PLAYING"
  /\ lives = INITIAL_LIVES
  /\ levelIndex = 0
  /\ bricks = InitBricks(0)
  /\ balls = <<SpawnBallAt(FALSE, ResetPaddle("MEDIUM"))>>
  /\ powerUps = <<>>
  /\ shrapnels = 0
  /\ fx = {}
  /\ barrierActive = FALSE
  /\ laserPending = FALSE
  /\ hasTriggeredMercyEvent = FALSE
  /\ isCriticalMode = FALSE
  /\ criticalHitCounter = 0
  /\ criticalHeartTarget = 0
  /\ isWaitingForFinalHeart = FALSE
  /\ finalHeartId = 0
  /\ mercySpawns = 0
  /\ ev = NoEvent("none")
  /\ difficulty = "MEDIUM"
  /\ difficultyMultiplier = 10
  /\ paddle = ResetPaddle("MEDIUM")
  /\ powerUpState = [NoPowerUps EXCEPT !.stickyEndTime = STICKY_DURATION]
  /\ now = 0
  /\ score = 0
  /\ streak = 0

NextStick ==
  \/ TickStick
  \/ DashStick
  \/ LaunchStick
  \/ StickTimePasses

SpecStick == InitStick /\ [][NextStick]_vars

\* a resting ball is at the paddle centre plus its stuckOffset, and the
\* offset is within the paddle half-width less the ball radius
OnPaddle(b, pad) ==
  /\ b.x2 = 2 * pad.x + pad.width + 2 * b.stuckOffset
  /\ Abs(b.stuckOffset) <= MaxOffset(pad)

\* C33: in every reachable state every resting ball is at the paddle centre
\* plus its stuckOffset, with |stuckOffset| <= paddle half-width - ball
\* radius
C33RestingBallOnPaddle ==
  \A k \in DOMAIN balls : ~balls[k].active => OnPaddle(balls[k], paddle)

\* C33, what does hold: at the end of a tick in which no ball was caught and
\* Enlarge was not collected, every resting ball is on the paddle
C33OnPaddleAfterPlainTick ==
  [][ (ev'.kind = "stick" /\ ~ev'.ballCaught /\ ev'.caught # "ENLARGE") =>
        \A k \in DOMAIN balls' : ~balls'[k].active => OnPaddle(balls'[k], paddle') ]_vars

\* C33, the state a tick leaves when the sticky paddle catches a ball over
\* its corner: the ball rests beyond the clamp
C33CaughtBeyondClamp ==
  /\ ev.kind = "stick"
  /\ ev.ballCaught
  /\ \E k \in DOMAIN balls :
       ~balls[k].active /\ Abs(balls[k].stuckOffset) > MaxOffset(paddle)

----------------------------------------------------------------------------
(* The wait for the final Heart and the loss of a life, in the lifecycle    *)
(* slice.                                                                   *)
\* C34: a tick that begins while the wait for the final Heart is pending
\* takes no life and does not enter Game Over; when it begins with no ball
\* left it ends the wait, clears the remembered Heart and signals
\* level-complete, with the lives as they were
C34NoLossWhileWaiting ==
  [][ (gameState = "PLAYING" /\ isWaitingForFinalHeart /\ ev'.kind = "tick") =>
        /\ lives' >= lives
        /\ gameState' # "GAME_OVER"
        /\ Len(balls) = 0 =>
             /\ lives' = lives
             /\ ev'.levelComplete
             /\ gameState' = "LEVEL_TRANSITION"
             /\ ~isWaitingForFinalHeart'
             /\ finalHeartId' = 0 ]_vars

\* the last ball was lost during the wait, on the last life, and the tick
\* after it has ended the wait with level-complete while the Heart was still
\* falling
C34WaitEndedWithoutBall ==
  /\ ev.kind = "tick"
  /\ ev.waitAtStart
  /\ ev.ballsAtStart = 0
  /\ ev.levelComplete
  /\ ev.heartsAtSignal > 0
  /\ lives = 1
  /\ gameState = "LEVEL_TRANSITION"

----------------------------------------------------------------------------
(* The living-brick slice: a Healer, a Durable brick, a Spore and a Turret  *)
(* in one row, their lastActionTime against Date.now().  A brick has no     *)
(* lastActionTime until a tick gives it one.  The enemy lasers are followed *)
(* up to the push; the history keeps, for every brick, the clock reading of *)
(* its last action, and the bricks that acted before (again).               *)
LivingStage == [rows |-> 1, cols |-> 6, layout |-> <<4, 2, 0, 5, 0, 7>>]
LivingStep == 2000
MaxLivingNow == 10000
HEALER_INTERVAL == 5000
SPORE_INTERVAL == 4000
TURRET_INTERVAL == 3000

IntervalOf(type) ==
  CASE type = "HEALER" -> HEALER_INTERVAL
    [] type = "SPORE" -> SPORE_INTERVAL
    [] OTHER -> TURRET_INTERVAL

\* brick.lastActionTime, 0 for undefined
LastActionTime(b) == IF "lastActionTime" \in DOMAIN b THEN b.lastActionTime ELSE 0

\* brick.lastActionTime = t
Stamped(b, t) == ("lastActionTime" :> t) @@ b

\* an interval that is over as soon as it has elapsed
DueAtInterval(b, t) ==
  LastActionTime(b) # 0 /\ t - LastActionTime(b) >= IntervalOf(b.type)

\* if (!brick.lastActionTime) brick.lastActionTime = now;
\* if (now - brick.lastActionTime > interval)
Due(b, t) ==
  LastActionTime(b) # 0 /\ t - LastActionTime(b) > IntervalOf(b.type)

\* the enemy laser a Turret fires; x2 is twice x
EnemyLaser(b) ==
  [x2 |-> 2 * b.x + b.width - 4, y |-> b.y + b.height, width |-> 4, height |-> 15,
   dy |-> 6]

\* what brick i does when its interval is over
LivingAct(w, i, pick) ==
  CASE w.bricks[i].type = "HEALER" ->
         [w EXCEPT !.bricks = HealerAct(@, i, pick), !.acted = @ \cup {i}]
    [] w.bricks[i].type = "SPORE" ->
         [w EXCEPT !.bricks = SporeAct(@, i, pick), !.acted = @ \cup {i}]
    [] OTHER ->
         [w EXCEPT !.enemyLasers = Append(@, EnemyLaser(w.bricks[i])),
                   !.acted = @ \cup {i}]

\* the body of initialBricks.forEach for brick i, at the clock reading t
LivingBrick(w, i, t, pick) ==
  IF w.bricks[i].status <= 0
       \/ ~(w.bricks[i].type = "HEALER" \/ w.bricks[i].type = "SPORE"
              \/ w.bricks[i].type = "TURRET")
  THEN w
  ELSE IF LastActionTime(w.bricks[i]) = 0
       THEN [w EXCEPT !.bricks[i] = Stamped(@, t)]
  ELSE IF Due(w.bricks[i], t)
       THEN LivingAct([w EXCEPT !.bricks[i] = Stamped(@, t)], i, pick)
  ELSE w

RECURSIVE LivingFrom(_, _, _, _, _)
\* updateLivingBricks over the bricks i..n0 that the array held at the start
LivingFrom(w, i, n0, t, pick) ==
  IF i > n0 THEN w
  ELSE LivingFrom(LivingBrick(w, i, t, pick), i + 1, n0, t, pick)

\* the clock reading of the last action of brick i, -1 when it has not acted
ActedAt(e, i) == IF "actedAt" \in DOMAIN e THEN e.actedAt[i] ELSE -1

\* update as far as the living bricks go
LivingTick ==
  /\ gameState = "PLAYING"
  /\ \E pick \in 0..1 :
       /\ bricks' = LivingFrom([bricks |-> bricks, enemyLasers |-> <<>>, acted |-> {}],
                               1, Len(bricks), now, pick).bricks
       /\ ev' = [kind |-> "living",
                 enemyLasers |->
                   LivingFrom([bricks |-> bricks, enemyLasers |-> <<>>, acted |-> {}],
                              1, Len(bricks), now, pick).enemyLasers,
                 acted |->
                   LivingFrom([bricks |-> bricks, enemyLasers |-> <<>>, acted |-> {}],
                              1, Len(bricks), now, pick).acted,
                 again |->
                   {i \in LivingFrom([bricks |-> bricks, enemyLasers |-> <<>>,
                                      acted |-> {}],
                                     1, Len(bricks), now, pick).acted :
                      ActedAt(ev, i) >= 0},
                 actedAt |->
                   [i \in 1..MaxBricks |->
                      IF i \in LivingFrom([bricks |-> bricks, enemyLasers |-> <<>>,
                                           acted |-> {}],
                                          1, Len(bricks), now, pick).acted
                      THEN now ELSE ActedAt(ev, i)]]
  /\ UNCHANGED <<gameState, lives, levelIndex, balls, powerUps, shrapnels, fx,
                 barrierActive, laserPending, hasTriggeredMercyEvent, isCriticalMode,
                 criticalHitCounter, criticalHeartTarget, isWaitingForFinalHeart,
                 finalHeartId, mercySpawns>>
  /\ UNCHANGED varsAux

\* a ball takes one health from a Durable brick at full health
LivingHit ==
  /\ gameState = "PLAYING"
  /\ \E i \in DOMAIN bricks :
       /\ bricks[i].type = "DURABLE"
       /\ bricks[i].status = bricks[i].maxHealth
       /\ bricks' = [bricks EXCEPT ![i].status = @ - 1]
  /\ ev' = [kind |-> "hit", enemyLasers |-> <<>>, acted |-> {}, again |-> {},
            actedAt |-> [i \in 1..MaxBricks |-> ActedAt(ev, i)]]
  /\ UNCHANGED <<gameState, lives, levelIndex, balls, powerUps, shrapnels, fx,
                 barrierActive, laserPending, hasTriggeredMercyEvent, isCriticalMode,
                 criticalHitCounter, criticalHeartTarget, isWaitingForFinalHeart,
                 finalHeartId, mercySpawns>>
  /\ UNCHANGED varsAux

\* wall-clock time goes by, the game ticking or not
LivingTimePasses ==
  /\ now + LivingStep <= MaxLivingNow
  /\ now' = now + LivingStep
  /\ ev' = [kind |-> "time", enemyLasers |-> <<>>, acted |-> {}, again |-> {},
            actedAt |-> [i \in 1..MaxBricks |-> ActedAt(ev, i)]]
  /\ UNCHANGED <<gameState, refsLife, difficulty, difficultyMultiplier, paddle,
                 powerUpState, score, streak>>

\* the level has just been built, at the clock reading LivingStep
InitLiving ==
  /\ gameState = "PLAYING"
  /\ lives = INITIAL_LIVES
  /\ levelIndex = TurretLevelIndex
  /\ bricks = InitBricksFrom(LivingStage, BrickWidthOf(LivingStage.cols), 0)
  /\ balls = <<SpawnBall(FALSE)>>
  /\ powerUps = <<>>
  /\ shrapnels = 0
  /\ fx = {}
  /\ barrierActive = FALSE
  /\ laserPending = FALSE
  /\ hasTriggeredMercyEvent = FALSE
  /\ isCriticalMode = FALSE
  /\ criticalHitCounter = 0
  /\ criticalHeartTarget = 0
  /\ isWaitingForFinalHeart = FALSE
  /\ finalHeartId = 0
  /\ mercySpawns = 0
  /\ ev = NoEvent("none")
  /\ difficulty = "MEDIUM"
  /\ difficultyMultiplier = 10
  /\ paddle = ResetPaddle("MEDIUM")
  /\ powerUpState = NoPowerUps
  /\ now = LivingStep
  /\ score = 0
  /\ streak = 0

NextLiving ==
  \/ LivingTick
  \/ LivingHit
  \/ LivingTimePasses

SpecLiving == InitLiving /\ [][NextLiving]_vars

IsTimed(b) == b.type = "HEALER" \/ b.type = "SPORE" \/ b.type = "TURRET"

\* C35: in a tick, a living Healer, Spore or Turret brick whose
\* lastActionTime lies more than its interval (5 s, 4 s, 3 s) back acts and
\* takes the tick's time as its lastActionTime; a brick that acts does so
\* more than its interval after its lastActionTime and after its last
\* action; and the tick adds one enemy laser for each Turret that acts, at
\* the middle of the Turret's lower edge, moving down
C35ActsWhenIntervalOver ==
  [][ ev'.kind = "living" =>
        /\ \A i \in DOMAIN bricks :
             (bricks[i].status > 0 /\ IsTimed(bricks[i])
                /\ LastActionTime(bricks[i]) # 0
                /\ now - LastActionTime(bricks[i]) > IntervalOf(bricks[i].type))
               => (i \in ev'.acted /\ LastActionTime(bricks'[i]) = now)
        /\ \A i \in ev'.acted :
             /\ bricks[i].status > 0 /\ IsTimed(bricks[i])
             /\ now - LastActionTime(bricks[i]) > IntervalOf(bricks[i].type)
             /\ ActedAt(ev, i) >= 0 => now - ActedAt(ev, i) > IntervalOf(bricks[i].type)
        /\ Len(ev'.enemyLasers)
             = Cardinality({i \in ev'.acted : bricks[i].type = "TURRET"})
        /\ \A i \in ev'.acted :
             bricks[i].type = "TURRET" =>
               \E k \in DOMAIN ev'.enemyLasers :
                 /\ ev'.enemyLasers[k].x2 = 2 * bricks[i].x + bricks[i].width - 4
                 /\ ev'.enemyLasers[k].y = bricks[i].y + bricks[i].height
                 /\ ev'.enemyLasers[k].dy > 0 ]_vars

\* the Turret has just fired one laser, and not for the first time
C35TurretFiredAgain ==
  /\ ev.kind = "living"
  /\ Len(ev.enemyLasers) = 1
  /\ \E i \in ev.again : bricks[i].type = "TURRET"

----------------------------------------------------------------------------
(* The growth of the brick array, in the lifecycle slice.                   *)
\* brick nb lies in a neighbour cell of brick b
NextTo(nb, b) ==
  \E k \in 1..4 : Neighbors(b)[k].x = nb.x /\ Neighbors(b)[k].y = nb.y

\* C36: a tick leaves the bricks of the array where they are and adds at
\* most one brick for the Healer or Spore that acts in it: a Standard brick
\* with health 1 and maxHealth 1, in a neighbour cell of a live Healer or
\* Spore, within the bounds of the field, where no live brick was; a step
\* that is not a tick leaves the array as it is or builds the bricks of a
\* level
C36GrowsBySpawnOnly ==
  [][ /\ ev'.kind = "tick" =>
           /\ Len(bricks') = Len(bricks) \/ Len(bricks') = Len(bricks) + 1
           /\ \A j \in DOMAIN bricks :
                /\ bricks'[j].type = bricks[j].type
                /\ bricks'[j].x = bricks[j].x
                /\ bricks'[j].y = bricks[j].y
           /\ Len(bricks') = Len(bricks) + 1 =>
                /\ bricks'[Len(bricks')].type = "STANDARD"
                /\ bricks'[Len(bricks')].status = 1
                /\ bricks'[Len(bricks')].maxHealth = 1
                /\ IsWithinBounds(bricks'[Len(bricks')].x, bricks'[Len(bricks')].y,
                                  bricks'[Len(bricks')].width, BRICK_HEIGHT)
                /\ FindBrickAt(bricks, bricks'[Len(bricks')].x, bricks'[Len(bricks')].y) = 0
                /\ \E i \in DOMAIN bricks :
                     /\ bricks[i].status > 0
                     /\ bricks[i].type = "HEALER" \/ bricks[i].type = "SPORE"
                     /\ NextTo(bricks'[Len(bricks')], bricks[i])
      /\ ev'.kind # "tick" => (bricks' = bricks \/ bricks' = InitBricks(levelIndex'))
    ]_vars

\* a Healer whose Durable neighbour was destroyed has put a Standard brick
\* in its place
C36SpawnedInDeadCell ==
  /\ ev.kind = "tick"
  /\ Len(bricks) = Len(InitBricks(levelIndex)) + 1
  /\ bricks[Len(bricks)].type = "STANDARD"
  /\ \E j \in 1..(Len(bricks) - 1) :
       /\ bricks[j].status <= 0
       /\ bricks[j].x = bricks[Len(bricks)].x
       /\ bricks[j].y = bricks[Len(bricks)].y
  /\ \E i \in DOMAIN bricks : bricks[i].type = "HEALER" /\ bricks[i].status > 0

----------------------------------------------------------------------------
(* Input while the game is paused, in the clock slice.                      *)
Paused == gameState = "PAUSED" \/ gameState = "RESUMING"

\* C37: a step taken while the game is paused (PAUSED or RESUMING) changes
\* no simulation entity: the paddle, the balls, the bricks, the power-ups
\* and the streak are after it what they were before
C37PausedIsFrozen ==
  [][ Paused => UNCHANGED <<paddle, balls, bricks, powerUps, streak>> ]_vars

\* C37, what does hold: while the game is paused a launch does nothing, and
\* the balls, the bricks, the power-ups and the streak stay as they are
C37PausedAllButPaddle ==
  [][ Paused => UNCHANGED <<balls, bricks, powerUps, streak>> ]_vars

----------------------------------------------------------------------------
(* The lives counter: the last life of an Arcade game at level index 2, the *)
(* first level at which a Laser can be pending, with the levels after it.   *)
ARCADE_LEVEL_COUNT == 20
LaserLevelIndex == 2
MaxLastLifeLevel == 3

\* the timer handleLevelComplete set, Arcade campaign, and the Level Update
\* Listener; the timer does not look at gameState or lives
ArcadeAdvance ==
  /\ gameState = "LEVEL_TRANSITION"
  /\ levelIndex + 1 < ARCADE_LEVEL_COUNT
  /\ levelIndex + 1 <= MaxLastLifeLevel
  /\ levelIndex' = levelIndex + 1
  /\ gameState' = "PLAYING"
  /\ LevelRefs(levelIndex + 1)
  /\ ev' = NoEvent("none")
  /\ UNCHANGED <<lives, hasTriggeredMercyEvent, isCriticalMode, criticalHitCounter,
                 criticalHeartTarget, mercySpawns>>
  /\ UNCHANGED <<difficulty, difficultyMultiplier, now, score, streak>>

\* one life left, one ball in play and a Laser due, the one-shot fired or not
InitLastLife ==
  /\ gameState = "PLAYING"
  /\ lives = 1
  /\ levelIndex = LaserLevelIndex
  /\ bricks = InitBricks(LaserLevelIndex)
  /\ balls = <<SpawnBall(TRUE)>>
  /\ powerUps = <<>>
  /\ shrapnels = 0
  /\ fx = {}
  /\ barrierActive = FALSE
  /\ laserPending = TRUE
  /\ hasTriggeredMercyEvent \in BOOLEAN
  /\ isCriticalMode = ~hasTriggeredMercyEvent
  /\ criticalHitCounter = 0
  /\ criticalHeartTarget \in (IF hasTriggeredMercyEvent THEN {0} ELSE TargetInputs)
  /\ isWaitingForFinalHeart = FALSE
  /\ finalHeartId = 0
  /\ mercySpawns = IF hasTriggeredMercyEvent THEN 1 ELSE 0
  /\ ev = NoEvent("none")
  /\ InitAux("MEDIUM")

NextLastLife ==
  \/ Tick
  \/ LaunchBalls
  \/ ArcadeAdvance
  \/ RestartGame

SpecLastLife == InitLastLife /\ [][NextLastLife]_vars

\* C38: the lives counter is never negative
C38LivesNeverNegative == lives >= 0

\* C38, what does hold: a tick takes at most one life, and the tick that
\* takes a life at lives <= 1 ends in Game Over unless it also signals
\* level-complete
C38OneLifeATick ==
  [][ ev'.kind = "tick" =>
        /\ lives' >= lives - 1
        /\ (lives' < lives /\ lives' <= 0) =>
             (gameState' = "GAME_OVER" \/ ev'.levelComplete) ]_vars

----------------------------------------------------------------------------
(* The crowd slice: two Spores on either side of an empty cell, above a     *)
(* Mimic and a Healer, the bricks acting on Date.now() (several in one      *)
(* tick), the Mimic dodging the ball, and the ball destroying bricks.       *)
CrowdStage == [rows |-> 2, cols |-> 5, layout |-> <<5, 0, 5, 0, 0,
                                                    3, 0, 4, 0, 0>>]

\* where the ball is after its move of a tick: touching from below the
\* Mimic's cell, the cell right of it or the cell between the Spores, under
\* the Mimic's cell near it, or at rest on the paddle
CrowdSpots ==
  {[active |-> TRUE, fallen |-> FALSE, radius |-> BALL_RADIUS,
    x |-> BRICK_OFFSET_LEFT + cell[2] * (BrickWidthOf(CrowdStage.cols) + BRICK_PADDING)
            + BrickWidthOf(CrowdStage.cols) \div 2,
    y |-> BRICK_OFFSET_TOP + cell[1] * (BRICK_HEIGHT + BRICK_PADDING) + BRICK_HEIGHT
            + (BALL_RADIUS - 1)] :
     cell \in {<<0, 1>>, <<1, 0>>, <<1, 1>>}}
  \cup
  {[active |-> TRUE, fallen |-> FALSE, radius |-> BALL_RADIUS,
    x |-> BRICK_OFFSET_LEFT + c * (BrickWidthOf(CrowdStage.cols) + BRICK_PADDING)
            + BrickWidthOf(CrowdStage.cols) \div 2,
    y |-> BRICK_OFFSET_TOP + (BRICK_HEIGHT + BRICK_PADDING) + BRICK_HEIGHT + 30] :
     c \in {0}}
  \cup
  {[active |-> FALSE, fallen |-> FALSE, radius |-> BALL_RADIUS,
    x |-> CANVAS_WIDTH \div 2,
    y |-> CANVAS_HEIGHT - PADDLE_OFFSET_BOTTOM - PADDLE_HEIGHT - BALL_RADIUS - 1]}

\* update, from the Mimic logic to the brick collision of the ball
CrowdDodge ==
  /\ gameState = "PLAYING"
  /\ \E spot \in CrowdSpots : MimicStep(spot)

InitCrowd ==
  /\ gameState = "PLAYING"
  /\ lives = INITIAL_LIVES
  /\ levelIndex = 0
  /\ bricks = InitBricksFrom(CrowdStage, BrickWidthOf(CrowdStage.cols), 0)
  /\ balls \in {<<spot>> : spot \in {sp \in CrowdSpots : ~sp.active}}
  /\ powerUps = <<>>
  /\ shrapnels = 0
  /\ fx = {}
  /\ barrierActive = FALSE
  /\ laserPending = FALSE
  /\ hasTriggeredMercyEvent = FALSE
  /\ isCriticalMode = FALSE
  /\ criticalHitCounter = 0
  /\ criticalHeartTarget = 0
  /\ isWaitingForFinalHeart = FALSE
  /\ finalHeartId = 0
  /\ mercySpawns = 0
  /\ ev = NoEvent("none")
  /\ difficulty = "MEDIUM"
  /\ difficultyMultiplier = 10
  /\ paddle = ResetPaddle("MEDIUM")
  /\ powerUpState = NoPowerUps
  /\ now = LivingStep
  /\ score = 0
  /\ streak = 0

NextCrowd ==
  \/ LivingTick
  \/ CrowdDodge
  \/ LivingTimePasses

SpecCrowd == InitCrowd /\ [][NextCrowd]_vars

\* bricks a and b are in the same grid cell (within 5 px), or their
\* rectangles overlap
SameCellOrOverlap(a, b) ==
  \/ Abs(a.x - b.x) < 5 /\ Abs(a.y - b.y) < 5
  \/ /\ a.x < b.x + b.width
     /\ a.x + a.width > b.x
     /\ a.y < b.y + b.height
     /\ a.y + a.height > b.y

\* C39: no two live bricks are in the same grid cell or overlap
C39LiveBricksApart ==
  \A i \in DOMAIN bricks : \A j \in DOMAIN bricks :
    (i < j /\ bricks[i].status > 0 /\ bricks[j].status > 0)
      => ~SameCellOrOverlap(bricks[i], bricks[j])

\* both Spores and the Healer have acted in one tick and the array has
\* grown by three, after the Mimic has dodged into the next cell
C39ThreeSpawnedAtOnce ==
  /\ ev.kind = "living"
  /\ Cardinality(ev.acted) = 3
  /\ Len(bricks) = Len(InitBricksFrom(CrowdStage, BrickWidthOf(CrowdStage.cols), 0)) + 3
  /\ \A i \in DOMAIN bricks : bricks[i].status > 0
  /\ \E i \in DOMAIN bricks :
       /\ bricks[i].type = "MIMIC"
       /\ IsMimicRevealed(bricks[i])
       /\ bricks[i].x > BRICK_OFFSET_LEFT

----------------------------------------------------------------------------
(* The final-Heart slice: the last life, one ball, one brick left that a    *)
(* ball or a pending Laser destroys, and the Heart of the level-clear path  *)
(* falling from the middle of the field, its y in tenths of a pixel.  The   *)
(* frames follow one another (requestAnimationFrame), so the tick is fair.  *)
HEART_DY10 == 24
HEART_HEIGHT == 20
WaitStage == [rows |-> 1, cols |-> 5, layout |-> <<0, 0, 1, 0, 0>>]

\* the ticks the Heart takes from the middle of the field past the floor
WaitBound == ((CANVAS_HEIGHT - CANVAS_HEIGHT \div 2) * 10) \div HEART_DY10 + 1

\* the Heart CHECK LEVEL COMPLETE pushes
FinalHeart(id) == [id |-> id, type |-> "HEART", y10 |-> (CANVAS_HEIGHT \div 2) * 10]

\* the power-up overlaps the paddle in y
AtPaddleHeight(pu) ==
  /\ pu.y10 + HEART_HEIGHT * 10 > (CANVAS_HEIGHT - PADDLE_OFFSET_BOTTOM) * 10
  /\ pu.y10 < (CANVAS_HEIGHT - PADDLE_OFFSET_BOTTOM + PADDLE_HEIGHT) * 10

\* update, "MERCY PRIORITY WAIT LOGIC": !heartStillActive || !ballsActive
WaitOver(pus, bls, id) ==
  \/ ~(\E k \in DOMAIN pus : pus[k].id = id /\ pus[k].y10 < CANVAS_HEIGHT * 10)
  \/ ~(Len(bls) > 0)

\* the ticks begun during the wait so far
WaitTicks(e) == IF "waitTicks" \in DOMAIN e THEN e.waitTicks ELSE 0

\* the balls after the ball loop and the filter of "Check Lives"
BallsAfter(bls, floor) == IF floor THEN SelectSeq(bls, LAMBDA b : ~b.active) ELSE bls

\* the bricks after the ball loop and the laser
BricksAfter(bs, bls, hit, fire) ==
  IF (hit /\ \E k \in DOMAIN bls : bls[k].active) \/ (fire /\ laserPending)
  THEN [k \in DOMAIN bs |-> [bs[k] EXCEPT !.status = 0]]
  ELSE bs

\* the power-ups after the power-up loop and its filter
PowerUpsAfter(pus, under) ==
  SelectSeq([k \in DOMAIN pus |-> [pus[k] EXCEPT !.y10 = @ + HEART_DY10]],
            LAMBDA pu : ~(under /\ AtPaddleHeight(pu)) /\ pu.y10 < CANVAS_HEIGHT * 10)

\* the Hearts the power-up loop collects
HeartsCaught(pus, under) ==
  Cardinality({k \in DOMAIN pus :
                 under /\ AtPaddleHeight([pus[k] EXCEPT !.y10 = @ + HEART_DY10])})

\* update with the wait pending and decided: the wait ends, onLevelComplete
\* is called and update returns; the effect on LEVEL_TRANSITION drops the
\* balls and the falling power-ups
WaitEnds ==
  /\ isWaitingForFinalHeart' = FALSE
  /\ finalHeartId' = 0
  /\ gameState' = "LEVEL_TRANSITION"
  /\ balls' = <<>>
  /\ powerUps' = <<>>
  /\ ev' = [kind |-> "wait", levelComplete |-> TRUE, waitTicks |-> WaitTicks(ev) + 1]
  /\ UNCHANGED <<lives, bricks, laserPending, hasTriggeredMercyEvent, streak>>

\* update past the wait logic: floor is the ball passing the floor, hit the
\* ball destroying the brick, fire the laser going off, under the paddle
\* being under the falling power-up
WaitPlay(floor, hit, fire, under) ==
  LET lost == ~isWaitingForFinalHeart /\ Len(BallsAfter(balls, floor)) = 0
      cleared == ~isWaitingForFinalHeart
                   /\ \A k \in DOMAIN bricks :
                        BricksAfter(bricks, balls, hit, fire)[k].status <= 0
      armed == cleared /\ lives = 1 /\ ~hasTriggeredMercyEvent
      signalled == cleared /\ ~armed
  IN /\ bricks' = BricksAfter(bricks, balls, hit, fire)
     /\ laserPending' = (laserPending /\ ~fire)
     /\ lives' = (IF lost THEN lives - 1 ELSE lives) + HeartsCaught(powerUps, under)
     /\ streak' = IF lost THEN 0 ELSE streak
     /\ gameState' = IF signalled THEN "LEVEL_TRANSITION"
                      ELSE IF lost /\ lives - 1 <= 0 THEN "GAME_OVER"
                      ELSE gameState
     /\ balls' = IF signalled THEN <<>>
                  ELSE IF lost /\ lives - 1 > 0 THEN <<SpawnBall(FALSE)>>
                  ELSE BallsAfter(balls, floor)
     /\ powerUps' = IF signalled THEN <<>>
                     ELSE IF armed
                          THEN Append(PowerUpsAfter(powerUps, under), FinalHeart(1))
                     ELSE PowerUpsAfter(powerUps, under)
     /\ isWaitingForFinalHeart' =
          IF lost /\ lives - 1 > 0 THEN armed
          ELSE (isWaitingForFinalHeart \/ armed)
     /\ finalHeartId' = IF armed THEN 1
                         ELSE IF lost /\ lives - 1 > 0 THEN 0
                         ELSE finalHeartId
     /\ hasTriggeredMercyEvent' = (hasTriggeredMercyEvent \/ armed)
     /\ ev' = [kind |-> "wait", levelComplete |-> signalled,
               waitTicks |-> IF isWaitingForFinalHeart THEN WaitTicks(ev) + 1 ELSE 0]

\* one frame: update
WaitTick ==
  /\ gameState = "PLAYING"
  /\ IF isWaitingForFinalHeart /\ WaitOver(powerUps, balls, finalHeartId)
     THEN WaitEnds
     ELSE \E floor \in BOOLEAN, hit \in BOOLEAN, fire \in BOOLEAN, under \in BOOLEAN :
            /\ ~(floor /\ hit)
            /\ fire => laserPending
            /\ WaitPlay(floor, hit, fire, under)
  /\ UNCHANGED <<levelIndex, shrapnels, fx, barrierActive, isCriticalMode,
                 criticalHitCounter, criticalHeartTarget, mercySpawns>>
  /\ UNCHANGED <<difficulty, difficultyMultiplier, paddle, powerUpState, now, score>>

\* launchBalls
WaitLaunch ==
  /\ gameState = "PLAYING"
  /\ \E k \in DOMAIN balls : ~balls[k].active
  /\ balls' = [k \in DOMAIN balls |-> [balls[k] EXCEPT !.active = TRUE]]
  /\ streak' = 0
  /\ ev' = [kind |-> "launch", levelComplete |-> FALSE, waitTicks |-> WaitTicks(ev)]
  /\ UNCHANGED <<gameState, lives, levelIndex, bricks, powerUps, shrapnels, fx,
                 barrierActive, laserPending, hasTriggeredMercyEvent, isCriticalMode,
                 criticalHitCounter, criticalHeartTarget, isWaitingForFinalHeart,
                 finalHeartId, mercySpawns>>
  /\ UNCHANGED <<difficulty, difficultyMultiplier, paddle, powerUpState, now, score>>

\* the last life or the one before, the ball in play, a Laser pending or not
InitWait ==
  /\ gameState = "PLAYING"
  /\ lives \in 1..INITIAL_LIVES
  /\ levelIndex = LaserLevelIndex
  /\ bricks = InitBricksFrom(WaitStage, BrickWidthOf(WaitStage.cols), 0)
  /\ balls = <<SpawnBall(TRUE)>>
  /\ powerUps = <<>>
  /\ shrapnels = 0
  /\ fx = {}
  /\ barrierActive = FALSE
  /\ laserPending \in BOOLEAN
  /\ hasTriggeredMercyEvent = FALSE
  /\ isCriticalMode = FALSE
  /\ criticalHitCounter = 0
  /\ criticalHeartTarget = 0
  /\ isWaitingForFinalHeart = FALSE
  /\ finalHeartId = 0
  /\ mercySpawns = 0
  /\ ev = NoEvent("none")
  /\ InitAux("MEDIUM")

NextWait ==
  \/ WaitTick
  \/ WaitLaunch

SpecWait == InitWait /\ [][NextWait]_vars

\* the frames follow one another
SpecWaitFair == SpecWait /\ WF_vars(WaitTick)

\* C40: once the wait for the final Heart is pending, level-complete is
\* signalled, with the wait flag and the remembered Heart id cleared
C40WaitAlwaysEnds ==
  isWaitingForFinalHeart ~>
    (ev.kind = "wait" /\ ev.levelComplete /\ ~isWaitingForFinalHeart /\ finalHeartId = 0)

\* C40, what does hold: a wait that is pending while the game is PLAYING
\* leads to level-complete, with the wait flag and the remembered Heart id
\* cleared
C40WaitEndsWhilePlaying ==
  (isWaitingForFinalHeart /\ gameState = "PLAYING") ~>
    (ev.kind = "wait" /\ ev.levelComplete /\ ~isWaitingForFinalHeart /\ finalHeartId = 0)

\* C40, what does hold: while the game is PLAYING the wait has lasted no
\* more ticks than the Heart takes to fall from the middle of the field
\* past the floor
C40WaitBounded ==
  (isWaitingForFinalHeart /\ gameState = "PLAYING") => WaitTicks(ev) <= WaitBound

=============================================================================
